---- MODULE Spec2Model ----
(***************************************************************************)
(* Model of the stockpile B-roll pipeline orchestrator                     *)
(* (src/src/broll_processor.py, src/src/models/job.py,                     *)
(* src/src/utils/database.py, src/src/services/video_downloader.py).       *)
(*                                                                         *)
(* One action is one piece of code that runs without yielding to the       *)
(* asyncio event loop: from the start of a process_video coroutine, or     *)
(* from the return of an awaited run_in_executor call, up to the next      *)
(* await or to the end of the coroutine.  The status updates and database  *)
(* writes of such a piece are a list of micro-operations (a status value   *)
(* for job.update_status, SAVE for save_job_progress) that RunOps folds    *)
(* over the job object, its database row and its status history.           *)
(*                                                                         *)
(* For a transcript and a folder URL, Python's None and "" are both        *)
(* written "" (both are falsy, which is all the code tests);               *)
(* job.error_message keeps None apart from the empty string.               *)
(***************************************************************************)
EXTENDS Integers, Sequences, FiniteSets, TLC

\* ------------------------------------------------------------------ bounds
\* Two sets of limits.  One follows a single input through every path of the
\* pipeline, database errors and a restart included; the other follows two
\* inputs side by side through a pipeline of one phrase.  A third follows the
\* single-file command through one start.
MaxJobs == 1        \* jobs ever created (uuid4 values handed out)
MaxStarts == 2      \* process starts (BRollProcessor.start)
MaxPhrases == 2     \* phrases returned by the phrase extraction
SysJobs == 2
SysStarts == 1
SysPhrases == 1
MaxFound == 4       \* videos returned by one search

\* config 'max_videos_per_phrase', its default
max_videos_per_phrase == 3

RunLimits ==
  [jobs |-> MaxJobs, starts |-> MaxStarts, phrases |-> MaxPhrases, faults |-> TRUE]
SystemLimits ==
  [jobs |-> SysJobs, starts |-> SysStarts, phrases |-> SysPhrases, faults |-> FALSE]
CommandLimits ==
  [jobs |-> MaxJobs, starts |-> SysStarts, phrases |-> SysPhrases, faults |-> FALSE]

\* ------------------------------------------------------------------ inputs
\* File paths handed to _handle_new_file.  c.bin stands for a Google Drive
\* file accepted by its MIME type whose name has no supported extension.
LocalPaths == {"a.mp4", "b.mp4"}
DrivePaths == {"c.bin"}
Paths == LocalPaths \cup DrivePaths

Source(p) == IF p \in DrivePaths THEN "google_drive" ELSE "local"

\* TranscriptionService.is_supported_file
is_supported_file(p) == p \in {"a.mp4", "b.mp4"}

Texts == {"", "speech"}          \* transcripts (whisper strips the text)
ErrTexts == {"", "err"}          \* str(e) of an exception of a collaborator
DbErr == "database is locked"    \* str(e) of an sqlite3 error
Urls == {"", "url"}

\* ------------------------------------------------------------------ JobStatus
QUEUED == "queued"
TRANSCRIBING == "transcribing"
EXTRACTING_PHRASES == "extracting_phrases"
SEARCHING_YOUTUBE == "searching_youtube"
DOWNLOADING == "downloading"
ORGANIZING == "organizing"
UPLOADING == "uploading"
COMPLETED == "completed"
FAILED == "failed"

JobStatus ==
  {QUEUED, TRANSCRIBING, EXTRACTING_PHRASES, SEARCHING_YOUTUBE, DOWNLOADING,
   ORGANIZING, UPLOADING, COMPLETED, FAILED}

\* load_incomplete_jobs: the statuses it selects
incomplete_statuses ==
  {QUEUED, TRANSCRIBING, EXTRACTING_PHRASES, SEARCHING_YOUTUBE, DOWNLOADING,
   ORGANIZING, UPLOADING}

\* resume_incomplete_jobs: the statuses it resets to QUEUED
in_progress_statuses ==
  {TRANSCRIBING, EXTRACTING_PHRASES, SEARCHING_YOUTUBE, DOWNLOADING,
   ORGANIZING, UPLOADING}

SAVE == "save"

AwaitPcs ==
  {"transcribe", "extract", "layout", "search", "evaluate", "download",
   "upload", "notify"}

VARIABLES
  limits,               \* the limits of this behaviour (never changes)
  loop,                 \* self.event_loop: "none", "running" or "closed"
  starts,               \* number of process starts so far
  nextId,               \* next job id create_job hands out
  notification_service, \* TRUE iff a NotificationService is configured
  drive_service,        \* TRUE iff a DriveService is configured
  job,                  \* the ProcessingJob objects of this process, by job_id
  db,                   \* the jobs table, by job_id
  job_queue,            \* self.job_queue: sequence of job ids
  processing_jobs,      \* keys of self.processing_jobs
  ready,                \* process_video(file_path) coroutines not yet started
  run,                  \* per job: where its process_video coroutine stands
  inflight,             \* calls running in the executor
  hist,                 \* per job object: every status it has had, in order
  lastCall,             \* per job: the executor call issued last for it
  released,             \* per job: times the finally clause popped it
  raisedBy,             \* per job: what raised in its run and with which text
  dlOk,                 \* every download call so far met its contract
  dlMixed,              \* per job: a download call had a raising candidate
                        \* followed by a downloaded one
  retry,                \* one call of a function wrapped by retry_with_backoff
  phrase_folders,       \* per job: the phrase folders of its project directory,
                        \* each with whether it holds a downloaded file
  monitor,              \* a FileMonitor, its handler and the sources it watches
  evaluation,           \* one evaluation of the search results of a phrase
  invocations,          \* what each process_video call of this process found
                        \* in job_queue: a job id, or 0 when it returned None
  naming                \* one name handed to a folder-name sanitizer

vars ==
  <<limits, loop, starts, nextId, notification_service, drive_service, job,
    db, job_queue, processing_jobs, ready, run, inflight, hist, lastCall,
    released, raisedBy, dlOk, dlMixed, retry, phrase_folders, monitor,
    evaluation, invocations, naming>>

\* what the pipeline never touches: the wrapped call, the FileMonitor, the
\* evaluation and the sanitizer followed on their own
apart == <<retry, monitor, evaluation, naming>>

Min(a, b) == IF a < b THEN a ELSE b
Last(s) == s[Len(s)]
Range(s) == {s[i] : i \in DOMAIN s}
Front(s) == SubSeq(s, 1, Len(s) - 1)
RECURSIVE Repeat(_, _)
Repeat(s, n) == IF n = 0 THEN <<>> ELSE s \o Repeat(s, n - 1)
Prefix(a, b) == Len(a) <= Len(b) /\ SubSeq(b, 1, Len(a)) = a

\* ------------------------------------------------------------------ job.py
None == "<None>"

\* ProcessingJob.update_status: `if error_message:` skips None and ""
update_status(jr, new_status, error_message) ==
  [jr EXCEPT !.status = new_status,
             !.error_message =
               IF error_message \notin {None, ""} THEN error_message ELSE @]

\* ProcessingJob(...) as create_job builds it
NewJob(p) ==
  [file_path |-> p, source |-> Source(p), status |-> QUEUED, error_message |-> None]

\* ------------------------------------------------------------------ micro-operations
NumSaves(ops) == Cardinality({i \in DOMAIN ops : ops[i] = SAVE})

\* position of the f-th save_job_progress call of ops
SaveAt(ops, f) ==
  CHOOSE i \in DOMAIN ops :
    ops[i] = SAVE /\ NumSaves(SubSeq(ops, 1, i)) = f

\* s = [job, db, hist]: the job object, its row and its status history
RECURSIVE RunOps(_, _)
RunOps(s, ops) ==
  IF ops = <<>> THEN s
  ELSE RunOps(
         IF Head(ops) = SAVE
           THEN [s EXCEPT !.db = s.job]
           ELSE [s EXCEPT !.job = update_status(s.job, Head(ops), None),
                          !.hist = Append(@, Head(ops))],
         Tail(ops))

\* ------------------------------------------------------------------ process_video / _execute_pipeline
\* A piece of the coroutine: the micro-operations it performs, then where it
\* stops: pc is the call it awaits next, "return" (the coroutine leaves the
\* try block normally) or "raise" (an exception of text msg leaves it).
\* k is the position in search_phrases the call is for, arg its argument
\* (number of videos handed over).
Piece(ops, pc, k, arg) == [ops |-> ops, pc |-> pc, k |-> k, arg |-> arg, msg |-> ""]

Raise(msg) == [ops |-> <<>>, pc |-> "raise", k |-> 0, arg |-> 0, msg |-> msg]

Pre(ops, piece) == [piece EXCEPT !.ops = ops \o @]

\* process_video, after _execute_pipeline has returned
MarkCompleted == Piece(<<COMPLETED, SAVE>>, "return", 0, 0)

\* _execute_pipeline step 6 and the guard of send_notification
SendCompletedNotification ==
  IF notification_service THEN Piece(<<>>, "notify", 0, 0) ELSE MarkCompleted

\* _execute_pipeline step 5, after upload_to_drive has returned url
AfterUpload(url) ==
  Pre(IF url # "" THEN <<SAVE>> ELSE <<>>, SendCompletedNotification)

\* _execute_pipeline after the phrase loop: job.downloaded_files, step 5
AfterLoop ==
  IF drive_service
    THEN Piece(<<SAVE, UPLOADING, SAVE>>, "upload", 0, 0)
    ELSE Pre(<<SAVE>>, SendCompletedNotification)

\* evaluate_videos: scored_videos[:max_videos]
Truncate(n) == Min(n, max_videos_per_phrase)

\* _execute_pipeline, phrase loop after evaluate_videos has returned n videos
AfterEvaluate(k, n) == Piece(<<DOWNLOADING, SAVE>>, "download", k, n)

\* evaluate_videos up to its await: no videos, no call
AfterSearch(k, m) ==
  IF m = 0 THEN AfterEvaluate(k, 0) ELSE Piece(<<>>, "evaluate", k, m)

\* a phrase is a positive number; 0 is the empty phrase
BlankPhrase(phrase) == phrase = 0

\* a loop that sets SEARCHING_YOUTUBE at the head of every iteration
LoopHead_StatusPerPhrase(phrases, k) ==
  IF k > Len(phrases) THEN AfterLoop
  ELSE Pre(<<SEARCHING_YOUTUBE, SAVE>>,
           IF BlankPhrase(phrases[k]) THEN AfterSearch(k, 0)
           ELSE Piece(<<>>, "search", k, 0))

\* the head of `for phrase in search_phrases`, and search_youtube_videos up
\* to its await
LoopHead(phrases, k) ==
  IF k > Len(phrases) THEN AfterLoop
  ELSE IF BlankPhrase(phrases[k]) THEN AfterSearch(k, 0)
  ELSE Piece(<<>>, "search", k, 0)

\* a loop that takes the same phrase again
AfterDownload_SamePhrase(phrases, k) == LoopHead(phrases, k)

\* phrase_downloads[phrase] = downloaded_files, next iteration
AfterDownload(phrases, k) == LoopHead(phrases, k + 1)

\* _execute_pipeline step 3 after the project structure exists, step 4
AfterLayout(phrases) ==
  Pre(<<SAVE, SEARCHING_YOUTUBE, SAVE>>, LoopHead(phrases, 1))

\* step 3 without its status update
AfterExtract_NoStatus == Piece(<<SAVE>>, "layout", 0, 0)

\* _execute_pipeline step 2 after the phrases are known, step 3
AfterExtract == Piece(<<SAVE, ORGANIZING, SAVE>>, "layout", 0, 0)

BlankText(text) == text = ""

\* an extract_search_phrases without its guard on the transcript
AfterTranscribe_NoGuard(text) ==
  Piece(<<SAVE, EXTRACTING_PHRASES, SAVE>>, "extract", 0, 0)

\* _execute_pipeline step 1 after the transcript is known, step 2 and
\* extract_search_phrases up to its await
AfterTranscribe(text) ==
  IF BlankText(text)
    THEN Pre(<<SAVE, EXTRACTING_PHRASES, SAVE>>, AfterExtract)
    ELSE Piece(<<SAVE, EXTRACTING_PHRASES, SAVE>>, "extract", 0, 0)

\* a transcribe_audio without its check of the file format
Begin_NoCheck(p) == Piece(<<TRANSCRIBING, SAVE>>, "transcribe", 0, 0)

\* _execute_pipeline step 1 and transcribe_audio up to its await
Begin(p) ==
  IF is_supported_file(p)
    THEN Piece(<<TRANSCRIBING, SAVE>>, "transcribe", 0, 0)
    ELSE Pre(<<TRANSCRIBING, SAVE>>, Raise("Unsupported file format"))

\* the piece as it runs when its f-th save_job_progress raises (f = 0: none)
WithSaveError(piece, f) ==
  IF f = 0 THEN piece
  ELSE [ops |-> SubSeq(piece.ops, 1, SaveAt(piece.ops, f) - 1),
        pc |-> "raise", k |-> 0, arg |-> 0, msg |-> DbErr]

\* process_video, the except clause: update_status(FAILED, str(e)) and a save
\* that succeeds or raises in its turn
ExceptClause(s, msg, saveOk) ==
  LET s1 == [s EXCEPT !.job = update_status(s.job, FAILED, msg),
                      !.hist = Append(@, FAILED)]
  IN IF saveOk THEN [s1 EXCEPT !.db = s1.job] ELSE s1

\* a finally clause that forgets the pop
Finally_Keep(pj, j) == pj

\* process_video, the finally clause
Finally(pj, j) == pj \ {j}

\* ------------------------------------------------------------------ video_downloader.py
\* VideoDownloader.download_videos_to_folder(videos, ...), no drive_service
\* passed.  videos is the list of candidates, mkdirOk the outcome of
\* target_path.mkdir, out[i] the outcome of _download_single_video on the i-th
\* candidate: "file" (a path), "none" (None) or "raise".  The result: whether
\* the call raises, the candidates attempted in order, the files returned,
\* and whether target_path.mkdir has made (or found) the folder.
RECURSIVE DownloadLoop(_, _, _, _, _)
DownloadLoop(videos, out, i, attempted, files) ==
  IF i > Len(videos)
    THEN [exc |-> FALSE, attempted |-> attempted, files |-> files,
          folder |-> TRUE]
  ELSE IF out[i] = "file"
    THEN DownloadLoop(videos, out, i + 1, Append(attempted, videos[i]),
                      Append(files, videos[i]))
  ELSE \* None: a warning; an exception: logged, continue
    DownloadLoop(videos, out, i + 1, Append(attempted, videos[i]), files)

\* `if not videos: return []`
NoDownload ==
  [exc |-> FALSE, attempted |-> <<>>, files |-> <<>>, folder |-> FALSE]

\* target_path.mkdir raises
MkdirRaises ==
  [exc |-> TRUE, attempted |-> <<>>, files |-> <<>>, folder |-> FALSE]

\* a download_videos_to_folder that makes the folder before it looks at videos
download_videos_to_folder_NoEarlyReturn(videos, mkdirOk, out) ==
  IF ~mkdirOk THEN MkdirRaises
  ELSE DownloadLoop(videos, out, 1, <<>>, <<>>)

\* a loop without the try/except around _download_single_video
download_videos_to_folder_NoCatch(videos, mkdirOk, out) ==
  IF videos = <<>> THEN NoDownload
  ELSE IF ~mkdirOk THEN MkdirRaises
  ELSE IF \E i \in DOMAIN out : out[i] = "raise"
    THEN LET i == CHOOSE a \in DOMAIN out :
                    out[a] = "raise" /\ \A b \in 1..(a - 1) : out[b] # "raise"
         IN [exc |-> TRUE, attempted |-> SubSeq(videos, 1, i),
             files |-> <<>>, folder |-> TRUE]
  ELSE DownloadLoop(videos, out, 1, <<>>, <<>>)

download_videos_to_folder(videos, mkdirOk, out) ==
  IF videos = <<>> THEN NoDownload
  ELSE IF ~mkdirOk THEN MkdirRaises
  ELSE DownloadLoop(videos, out, 1, <<>>, <<>>)

Outcomes == {"file", "none", "raise"}

\* the candidates handed to a download call with argument n, best first
Videos(n) == [i \in 1..n |-> i]

\* the candidates of videos whose download yields a file, in order
Downloaded(videos, out) ==
  LET F[i \in 0..Len(videos)] ==
        IF i = 0 THEN <<>>
        ELSE IF out[i] = "file" THEN Append(F[i - 1], videos[i]) ELSE F[i - 1]
  IN F[Len(videos)]

\* ------------------------------------------------------------------ ai_service.py, evaluate_videos
MaxItems == 3       \* entries of the JSON array the evaluator returns
MaxLimit == 2       \* largest max_videos_per_phrase followed

\* the video ids of one search result, and an id the evaluator made up
FoundIds == {1, 2}
ItemIds == FoundIds \cup {3}
\* scores the evaluator gives; 5 is below the threshold of 6
Scores == {5, 7, 9}

Items == [video_id : ItemIds, score : Scores]

ItemLists(n) == UNION {[1..len -> Items] : len \in 0..n}

\* AIService.evaluate_videos, the validation of one entry of scored_results
ValidItem(item, video_lookup) ==
  /\ ~(item.score < 6 \/ item.score > 10)
  /\ item.video_id \in video_lookup

\* the ScoredVideo objects appended to scored_videos, in the order of the array
RECURSIVE ScoredVideos(_, _)
ScoredVideos(scored_results, video_lookup) ==
  IF scored_results = <<>> THEN <<>>
  ELSE (IF ValidItem(Head(scored_results), video_lookup)
          THEN <<Head(scored_results)>> ELSE <<>>)
         \o ScoredVideos(Tail(scored_results), video_lookup)

\* x put into the score-descending list s behind the entries of its own score
RECURSIVE Insert(_, _)
Insert(s, x) ==
  IF s = <<>> THEN <<x>>
  ELSE IF Head(s).score >= x.score THEN <<Head(s)>> \o Insert(Tail(s), x)
  ELSE <<x>> \o s

\* a list left in the order of the array
SortByScore_Unsorted(s) == s

\* scored_videos.sort(key=lambda x: x.score, reverse=True): a stable sort
RECURSIVE SortByScore(_)
SortByScore(s) ==
  IF s = <<>> THEN <<>>
  ELSE Insert(SortByScore(SubSeq(s, 1, Len(s) - 1)), s[Len(s)])

\* AIService.evaluate_videos(phrase, video_results), scored_results being the
\* array parsed from the response
AIService_evaluate_videos(video_results, scored_results) ==
  IF video_results = {} THEN <<>>
  ELSE SortByScore(ScoredVideos(scored_results, video_results))

\* a slice that keeps everything
Slice_All(s, n) == s

\* s[:n]
Slice(s, n) == SubSeq(s, 1, Min(Len(s), n))

\* BRollProcessor.evaluate_videos: scored_videos[:max_videos], and no call of
\* the evaluator without videos
evaluate_videos(video_results, scored_results, max_videos) ==
  IF video_results = {} THEN <<>>
  ELSE Slice(AIService_evaluate_videos(video_results, scored_results), max_videos)

\* _download_single_video: the name of the file starts with the score
FileOf(video) == [prefix |-> video.score, video_id |-> video.video_id]

\* the evaluation of the results of one search, as it starts
Evaluation(video_results, scored_results, max_videos) ==
  [pc |-> "evaluate", video_results |-> video_results,
   scored_results |-> scored_results, max_videos |-> max_videos,
   scored_videos |-> <<>>, downloaded_files |-> <<>>]

\* ------------------------------------------------------------------ results of the collaborators
\* what an awaited call hands back: a value, or an exception of text msg
Returned(v) == [exc |-> FALSE, val |-> v, msg |-> ""]
Raises(v) == {[exc |-> TRUE, val |-> v, msg |-> m] : m \in ErrTexts}

\* TranscriptionService.transcribe_audio
transcribe_audio_results == {Returned(t) : t \in Texts} \cup Raises("")

\* AIService.extract_search_phrases: a list of n distinct non-empty phrases
extract_search_phrases_results ==
  {Returned(n) : n \in 0..limits.phrases} \cup Raises(0)

\* FileOrganizer.create_project_structure: the project directory, or an error
create_project_structure_results == {Returned("dir")} \cup Raises("")

\* YouTubeService.search_videos: a list of m videos
search_videos_results == {Returned(m) : m \in 0..MaxFound} \cup Raises(0)

\* AIService.evaluate_videos on m videos: n of them scored, best first
evaluate_videos_results(m) == {Returned(n) : n \in 0..m} \cup Raises(0)

\* DriveService.upload_folder: the folder URL, or an error
upload_folder_results == {Returned(u) : u \in Urls} \cup Raises("")

\* NotificationService.send_notification as BRollProcessor.send_notification
\* calls it: seven arguments for six parameters, a TypeError
send_notification_results ==
  {[exc |-> TRUE, val |-> 0, msg |-> "too many positional arguments"]}

\* ------------------------------------------------------------------ retry.py
\* Delays are in tenths of a second.
MaxRetries == 3     \* largest max_retries of a direct use of retry_with_backoff

\* random.uniform(0, hi): the draw u picks the least, the middle or the
\* greatest value
Draws == {0, 1, 2}
Uniform(hi, u) == (hi * u) \div 2

\* exponential_backoff with jitter on the delay before the cap
exponential_backoff_RawJitter(attempt, base_delay, max_delay, u) ==
  LET delay == Min(base_delay * 2^attempt, max_delay)
      jitter == Uniform((base_delay * 2^attempt) \div 10, u)
  IN delay + jitter

\* exponential_backoff with jitter up to delay * 1.1
exponential_backoff_WideJitter(attempt, base_delay, max_delay, u) ==
  LET delay == Min(base_delay * 2^attempt, max_delay)
      jitter == Uniform(delay + delay \div 10, u)
  IN delay + jitter

\* exponential_backoff with the cap applied after the jitter
exponential_backoff_CapLast(attempt, base_delay, max_delay, u) ==
  LET delay == base_delay * 2^attempt
      jitter == Uniform(delay \div 10, u)
  IN Min(delay + jitter, max_delay)

\* exponential_backoff(attempt, base_delay, max_delay), u the random draw
exponential_backoff(attempt, base_delay, max_delay, u) ==
  LET delay == Min(base_delay * 2^attempt, max_delay)
      jitter == Uniform(delay \div 10, u)
  IN delay + jitter

\* the decorators: what retry_with_backoff is called with
retry_with_backoff(max_retries, base_delay, max_delay, exceptions) ==
  [max_retries |-> max_retries, base_delay |-> base_delay,
   max_delay |-> max_delay, exceptions |-> exceptions]

retry_api_call(max_retries, base_delay) ==
  retry_with_backoff(max_retries, base_delay, 1200,
                     {"APIRateLimitError", "NetworkError", "TemporaryServiceError"})

retry_file_operation(max_retries, base_delay) ==
  retry_with_backoff(max_retries, base_delay, 100,
                     {"OSError", "IOError", "PermissionError"})

retry_download(max_retries, base_delay) ==
  retry_with_backoff(max_retries, base_delay, 600,
                     {"NetworkError", "TemporaryServiceError", "ConnectionError"})

\* the decorators applied in the services, and retry_with_backoff used
\* directly with its default exceptions and a low or a high max_delay
ServiceDecorators ==
  {retry_api_call(3, 20), retry_api_call(5, 20), retry_api_call(3, 10),
   retry_file_operation(3, 10), retry_download(3, 20)}

Decorators ==
  ServiceDecorators
    \cup {retry_with_backoff(m, 10, d, {"Exception"}) :
            m \in 0..MaxRetries, d \in {15, 600}}

\* exception classes a wrapped function raises, and the classes each is an
\* instance of (IOError is OSError)
Classes ==
  {"NetworkError", "ConnectionError", "FileNotFoundError", "PermissionError",
   "ValueError"}

Bases(c) ==
  CASE c = "NetworkError" -> {"NetworkError", "RetryableError", "Exception"}
    [] c = "ConnectionError" -> {"ConnectionError", "OSError", "IOError", "Exception"}
    [] c = "FileNotFoundError" -> {"FileNotFoundError", "OSError", "IOError", "Exception"}
    [] c = "PermissionError" -> {"PermissionError", "OSError", "IOError", "Exception"}
    [] c = "ValueError" -> {"ValueError", "Exception"}

\* `except exceptions as e` with everything caught
Caught_All(exceptions, c) == TRUE
\* `except exceptions as e`
Caught(exceptions, c) == Bases(c) \cap exceptions # {}

\* `if attempt == max_retries` one attempt early
LastAttempt_Early(attempt, max_retries) == attempt >= max_retries - 1
\* `if attempt == max_retries` never true
LastAttempt_Never(attempt, max_retries) == FALSE
\* `if attempt == max_retries`
LastAttempt(attempt, max_retries) == attempt = max_retries

\* an exception object: its class and the invocation that raised it
NoExc == [class |-> "none", call |-> 0]

\* wrapper(*args) as it starts under decorator d
Wrapper(d) ==
  [policy |-> d, pc |-> "call", attempt |-> 0, calls |-> 0, failures |-> 0,
   waits |-> <<>>, last_exception |-> NoExc, raised |-> NoExc]

NoRetry == [Wrapper(retry_with_backoff(0, 0, 0, {})) EXCEPT !.pc = "none"]

\* the wrapper r after func has been invoked with this outcome ("ok" or the
\* class of the exception it raises), u the draw of the jitter
Invoked(r, outcome, u) ==
  LET n == r.calls + 1
      e == [class |-> outcome, call |-> n]
      d == r.policy
  IN IF outcome = "ok"
       THEN [r EXCEPT !.calls = n, !.pc = "returned"]
     ELSE IF ~Caught(d.exceptions, outcome)
       THEN [r EXCEPT !.calls = n, !.failures = @ + 1, !.pc = "raised",
                      !.raised = e]
     ELSE IF LastAttempt(r.attempt, d.max_retries)
       THEN [r EXCEPT !.calls = n, !.failures = @ + 1, !.pc = "raised",
                      !.last_exception = e, !.raised = e]
     ELSE [r EXCEPT !.calls = n, !.failures = @ + 1, !.pc = "sleeping",
                    !.last_exception = e,
                    !.waits = Append(@,
                      [attempt |-> r.attempt, u |-> u,
                       delay |-> exponential_backoff(r.attempt, d.base_delay,
                                                     d.max_delay, u)])]

\* time.sleep(delay) is over: the next round of `for attempt in range(...)`,
\* or, the range used up, `raise last_exception`
Woken(r) ==
  IF r.attempt + 1 > r.policy.max_retries
    THEN [r EXCEPT !.attempt = @ + 1, !.pc = "raised", !.raised = r.last_exception]
    ELSE [r EXCEPT !.attempt = @ + 1, !.pc = "call"]

\* ------------------------------------------------------------------ file_monitor.py
MaxCreates == 2     \* files created in the local input folder while watched
MaxUploads == 2     \* files put into the Drive input folder while polled
MaxPolls == 2       \* polls of the Drive input folder

\* the files that can be in the local input folder; n.txt is not a video
Files == {"a.mp4", "b.mp4", "n.txt"}

\* VideoFileHandler._is_supported_file, and the test of the suffix in
\* _process_existing_files
IsSupported(p) == p \in {"a.mp4", "b.mp4"}

\* the files that can be in the Drive input folder, by id; file 3 is a text
DriveIds == {1, 2, 3}

\* FileMonitor._is_video_file on the listing entry of file id
IsVideoFile(id) == id \in {1, 2}

\* _download_drive_file: temp_dir / file_info['name']
TempPath(id) ==
  CASE id = 1 -> "tmp/v1.mp4"
    [] id = 2 -> "tmp/v2.mov"
    [] id = 3 -> "tmp/notes.txt"

\* every order a listing can come in
Orders(S) ==
  {q \in [1..Cardinality(S) -> S] : \A a, b \in DOMAIN q : a # b => q[a] # q[b]}

\* an observer started before the files already there are gone through
start_local_monitoring_ObserverFirst == <<"observe", "list", "existing">>

\* (In a monitor, stable is the set of supported files of the listing that
\* have been in the folder ever since, vanished the files a handler found
\* gone after its sleep, initial the ids of the first Drive listing, temp the
\* ids with a temporary copy.)

\* _start_local_monitoring: _process_existing_files (the listing, then the
\* files one by one), then the observer
start_local_monitoring == <<"list", "existing", "observe">>

\* a call of file_callback: the path handed over, the source, who called
\* ("existing": _process_existing_files, "created": on_created, "drive":
\* _check_for_new_drive_files), the Drive id (0: none) and whether the
\* observer was running
Report(path, source, via, id, obs) ==
  [path |-> path, source |-> source, via |-> via, id |-> id, observer |-> obs]

\* a file test that does not look at the disk
Exists_Always(folder, p) == TRUE

\* file_path.exists(), file_path.is_file()
Exists(folder, p) == p \in folder

\* a poll that forgets what it has seen
Known_Forget(known, id) == known

\* self.known_drive_files.add(file['id'])
Known(known, id) == known \cup {id}

\* a poll that forgets an id whose download failed
GiveUp_Forget(known, id) == known \ {id}

\* `if temp_path:` has no else branch: after a failed download the id stays
\* in known_drive_files
GiveUp(known, id) == known

\* a handler that does not remember what it has reported
Processed_Forget(processed, p) == processed

\* self.processed_files.add(str(file_path))
Processed(processed, p) == processed \cup {p}

\* _check_for_new_drive_files catches every Exception of its body and logs
\* it (except Exception, L253-254): whether the listing went well or not,
\* nothing escapes to the loop of _monitor_drive_folder
Escapes(ok) == FALSE

\* _monitor_drive_folder, the seconds slept between the end of one round and
\* the next call of _check_for_new_drive_files: sleep(30) at the head of the
\* loop, after the sleep(60) of the except clause when the round raised
Interval(escaped) == IF escaped THEN 60 + 30 ELSE 30

\* _check_for_new_drive_files, the loop over the listing `files`: m is the
\* monitor, got[id] what happens to a new file: "copied" (the temporary copy
\* is written and the callback returns), "failed" (_download_drive_file
\* returns None) or "raises" (the copy is written and the callback raises,
\* which ends the loop)
RECURSIVE CheckFiles(_, _, _)
CheckFiles(m, files, got) ==
  IF files = <<>> THEN m
  ELSE LET id == Head(files)
       IN IF ~(IsVideoFile(id) /\ id \notin m.known_drive_files)
            THEN CheckFiles(m, Tail(files), got)
          ELSE LET m1 == [m EXCEPT !.known_drive_files = Known(@, id),
                                   !.tried = Append(@, id)]
                   m0 == [m1 EXCEPT !.known_drive_files = GiveUp(@, id),
                                    !.failed = @ \cup {id}]
                   m2 == [m1 EXCEPT
                            !.temp = @ \cup {id},
                            !.reported =
                               Append(@, Report(TempPath(id), "google_drive",
                                                "drive", id, m.observer))]
               IN IF got[id] = "failed" THEN CheckFiles(m0, Tail(files), got)
                  ELSE IF got[id] = "raises" THEN m2
                  ELSE CheckFiles(m2, Tail(files), got)

\* FileMonitor(config, file_callback) before start_monitoring: local and
\* drive say which input sources are configured, folder is what the local
\* input folder holds, remote what the Drive input folder holds.  Kept for
\* the record: skipped, the paths of creation events dropped because the path
\* was in processed_files; tried, the ids whose download was attempted, in
\* order; failed, the ids whose download returned None; rounds, per round of
\* the polling loop whether its listing raised, what the folder held and the
\* seconds slept before the next round.
Monitor(local, drive, folder, remote) ==
  [pc |-> "created", local |-> local, drive |-> drive, running |-> FALSE,
   folder |-> folder, remote |-> remote,
   todo |-> <<>>, existing |-> <<>>, stable |-> {},
   observer |-> FALSE, events |-> <<>>, handling |-> None,
   processed_files |-> {}, vanished |-> {}, created |-> 0,
   task |-> "none", known_drive_files |-> {}, initial |-> {}, temp |-> {},
   uploads |-> 0, polls |-> 0,
   reported |-> <<>>,
   skipped |-> {}, tried |-> <<>>, failed |-> {}, rounds |-> <<>>]

\* ------------------------------------------------------------------ folder-name sanitizers
\* A name is a sequence of characters.  "/" stands for the characters of
\* [<>:"/\|?*], " " for whitespace, "a" for any other character but "." and
\* "_".
MaxTail == 3        \* characters of a name chosen freely at its end

Chars == {"a", "_", ".", " ", "/"}

\* the slice limit of the three sanitizers
name_limit == 50

\* re.sub(r'[<>:"/\\|?*]', '_', s)
ReplaceIllegal(s) == [i \in DOMAIN s |-> IF s[i] = "/" THEN "_" ELSE s[i]]

\* re.sub(r'\s+', '_', s): every maximal run of whitespace becomes one "_"
RECURSIVE CollapseWhitespace(_)
CollapseWhitespace(s) ==
  IF s = <<>> THEN <<>>
  ELSE IF Head(s) # " " THEN <<Head(s)>> \o CollapseWhitespace(Tail(s))
  ELSE IF Len(s) > 1 /\ s[2] = " " THEN CollapseWhitespace(Tail(s))
  ELSE <<"_">> \o CollapseWhitespace(Tail(s))

\* s.strip('._')
RECURSIVE Strip(_)
Strip(s) ==
  IF s = <<>> THEN <<>>
  ELSE IF Head(s) \in {".", "_"} THEN Strip(Tail(s))
  ELSE IF Last(s) \in {".", "_"} THEN Strip(Front(s))
  ELSE s

\* s[:name_limit]
Cut(s) == SubSeq(s, 1, Min(Len(s), name_limit))

\* the placeholders: 'unnamed_phrase' and 'unnamed'
unnamed_phrase ==
  <<"u", "n", "n", "a", "m", "e", "d", "_", "p", "h", "r", "a", "s", "e">>
unnamed == <<"u", "n", "n", "a", "m", "e", "d">>

Sanitizers ==
  {"FileOrganizer._sanitize_folder_name", "VideoDownloader.sanitize_filename",
   "DriveService._sanitize_folder_name"}

Placeholder(f) ==
  IF f = "FileOrganizer._sanitize_folder_name" THEN unnamed_phrase ELSE unnamed

\* the three sanitizers: replace, collapse, strip, then the placeholder for
\* an empty result and the slice
sanitize(f, s) ==
  LET sanitized == Strip(CollapseWhitespace(ReplaceIllegal(s)))
  IN Cut(IF sanitized = <<>> THEN Placeholder(f) ELSE sanitized)

\* the names handed to a sanitizer: short ones, and long ones around the
\* limit, with any characters at the end and any character at the front
Strings(n) == UNION {[1..len -> Chars] : len \in 0..n}

Names ==
  {head \o Repeat(<<"a">>, pad) \o tail :
     head \in Strings(1),
     pad \in {0} \cup ((name_limit - MaxTail)..name_limit),
     tail \in Strings(MaxTail)}

\* one name followed through a sanitizer, twice
Naming(f, s) == [pc |-> "name", f |-> f, name |-> s, once |-> <<>>, twice |-> <<>>]

\* ------------------------------------------------------------------ state
NoMonitor == [pc |-> "none"]
NoEvaluation == [pc |-> "none"]
NoNaming == [pc |-> "none"]

\* a coroutine that is already at its first await when the job is created
NoRun_Started ==
  [pc |-> "transcribe", transcript |-> None, search_phrases |-> <<>>, k |-> 0,
   arg |-> 0]

NoRun ==
  [pc |-> "queued", transcript |-> None, search_phrases |-> <<>>, k |-> 0,
   arg |-> 0]

NoCall == [job |-> 0, kind |-> "none", k |-> 0, status |-> ""]

Init ==
  /\ limits \in {RunLimits, SystemLimits, CommandLimits}
  /\ loop = "none"
  /\ starts = 0
  /\ nextId = 1
  /\ notification_service \in BOOLEAN
  /\ drive_service \in BOOLEAN
  /\ limits # RunLimits => notification_service /\ ~drive_service
  /\ job = <<>>
  /\ db = <<>>
  /\ job_queue = <<>>
  /\ processing_jobs = {}
  /\ ready = <<>>
  /\ run = <<>>
  /\ inflight = {}
  /\ hist = <<>>
  /\ lastCall = <<>>
  /\ released = <<>>
  /\ raisedBy = <<>>
  /\ dlOk = TRUE
  /\ dlMixed = <<>>
  /\ retry = NoRetry
  /\ phrase_folders = <<>>
  /\ monitor = NoMonitor
  /\ evaluation = NoEvaluation
  /\ invocations = <<>>
  /\ naming = NoNaming

Config == <<limits, notification_service, drive_service>>

\* the call a piece stops at
Call(j, piece) ==
  [job |-> j, kind |-> piece.pc, k |-> piece.k,
   status |-> IF piece.pc = "notify" THEN COMPLETED ELSE ""]

Nothing == [kind |-> "none", msg |-> ""]

\* Job j's coroutine runs `piece0` (its f-th save raising, the save of the
\* except clause succeeding iff saveOk) with the locals transcript = text and
\* search_phrases = phrases; pj is processing_jobs as the piece finds it, ret
\* the call that has just returned, cause what raisedBy records.
Advance(j, piece0, text, phrases, f, saveOk, pj, ret, cause) ==
  LET piece == WithSaveError(piece0, f)
      s1 == RunOps([job |-> job[j], db |-> db[j], hist |-> hist[j]], piece.ops)
      s2 == IF piece.pc = "raise" THEN ExceptClause(s1, piece.msg, saveOk) ELSE s1
      ended == piece.pc \in {"raise", "return"}
  IN /\ job' = [job EXCEPT ![j] = s2.job]
     /\ db' = [db EXCEPT ![j] = s2.db]
     /\ hist' = [hist EXCEPT ![j] = s2.hist]
     /\ run' = [run EXCEPT ![j] =
                  [pc |-> IF piece.pc = "raise" THEN "raised"
                          ELSE IF piece.pc = "return" THEN "returned"
                          ELSE piece.pc,
                   transcript |-> text, search_phrases |-> phrases,
                   k |-> piece.k, arg |-> piece.arg]]
     /\ processing_jobs' = IF ended THEN Finally(pj, j) ELSE pj
     /\ released' = [released EXCEPT ![j] = IF ended THEN @ + 1 ELSE @]
     /\ inflight' = (inflight \ ret) \cup (IF ended THEN {} ELSE {Call(j, piece)})
     /\ lastCall' = [lastCall EXCEPT ![j] = IF ended THEN @ ELSE Call(j, piece)]
     /\ raisedBy' = [raisedBy EXCEPT ![j] =
                       IF cause.kind # "none" THEN cause
                       ELSE IF f > 0 THEN [kind |-> "db", msg |-> DbErr]
                       ELSE IF piece.pc = "raise"
                         THEN [kind |-> "validation", msg |-> piece.msg]
                       ELSE @]

\* which save_job_progress call of a piece raises (0: none), and whether the
\* one of the except clause succeeds
Saves(piece) == IF limits.faults THEN 0..NumSaves(piece.ops) ELSE {0}
SaveOutcomes == IF limits.faults THEN BOOLEAN ELSE {TRUE}

\* the call job j is waiting for
Awaited(j) ==
  [job |-> j, kind |-> run[j].pc, k |-> run[j].k,
   status |-> IF run[j].pc = "notify" THEN COMPLETED ELSE ""]

\* an executor that hands back a result only while no other call is running
Waiting_Alone(j, pc) ==
  /\ loop = "running"
  /\ j \in DOMAIN run
  /\ run[j].pc = pc
  /\ inflight = {Awaited(j)}

\* the await of run_in_executor: the coroutine of job j is resumed when its
\* call is done, whatever else the loop and the executor hold
Waiting(j, pc) ==
  /\ loop = "running"
  /\ j \in DOMAIN run
  /\ run[j].pc = pc
  /\ Awaited(j) \in inflight

\* ------------------------------------------------------------------ create_job, _handle_new_file
\* a lookup that knows a path again: nothing is found for a file_path of
\* which a job has already been COMPLETED or FAILED in this process
FindJob_Once(q, p) ==
  LET I == {i \in DOMAIN q : job[q[i]].file_path = p}
      done == {j \in DOMAIN job : /\ job[j].file_path = p
                                  /\ job[j].status \in {COMPLETED, FAILED}}
  IN IF I = {} \/ done # {} THEN 0 ELSE CHOOSE i \in I : \A i2 \in I : i <= i2

\* a lookup that takes the first queued job whatever its file_path
FindJob_Any(q, p) == IF q = <<>> THEN 0 ELSE 1

\* first position of job_queue holding a job of this file_path, 0 if none
FindJob(q, p) ==
  LET I == {i \in DOMAIN q : job[q[i]].file_path = p}
  IN IF I = {} THEN 0 ELSE CHOOSE i \in I : \A i2 \in I : i <= i2

\* a process_video that leaves the job in job_queue
RemoveAt_Keep(q, i) == q

\* self.job_queue.remove(job)
RemoveAt(q, i) == SubSeq(q, 1, i - 1) \o SubSeq(q, i + 1, Len(q))

\* the function g extended by x |-> v
Extend(g, x, v) == [y \in DOMAIN g \cup {x} |-> IF y = x THEN v ELSE g[y]]

\* A file handed to _handle_new_file outside start with source "local" comes
\* from VideoFileHandler.on_created, which the observer thread runs; a Drive
\* file comes from the polling task of the event loop.
OnObserverThread(p) == Source(p) = "local"

\* run_coroutine_threadsafe(self.process_video(file_path, source), loop) when
\* the stored loop is there and not closed; else only an error is logged
\* a handler that creates the job and hands no coroutine to the loop
Schedule_Drop(rdy, lp, p) == rdy

Schedule(rdy, lp, p) == IF lp = "running" THEN Append(rdy, p) ELSE rdy

\* _handle_new_file(p, source): create_job, then schedule process_video.
\* It is called by the watcher while the process lives: on the observer
\* thread, by the Drive polling task, or, within start, for a file that is
\* already there (see Start).  After the loop has been closed the observer
\* thread may still deliver a file it noticed before.
HandleNewFile(p) ==
  /\ loop \in {"running", "closed"}
  /\ nextId <= limits.jobs
  /\ job' = Extend(job, nextId, NewJob(p))
  /\ db' = Extend(db, nextId, NewJob(p))
  /\ job_queue' = Append(job_queue, nextId)
  /\ ready' = Schedule(ready, loop, p)
  /\ run' = Extend(run, nextId, NoRun)
  /\ hist' = Extend(hist, nextId, <<QUEUED>>)
  /\ lastCall' = Extend(lastCall, nextId, NoCall)
  /\ released' = Extend(released, nextId, 0)
  /\ raisedBy' = Extend(raisedBy, nextId, Nothing)
  /\ dlMixed' = Extend(dlMixed, nextId, FALSE)
  /\ phrase_folders' = Extend(phrase_folders, nextId, <<>>)
  /\ nextId' = nextId + 1
  /\ UNCHANGED <<loop, starts, Config, processing_jobs, inflight, dlOk,
                 invocations, apart>>

\* ------------------------------------------------------------------ process_video
\* A scheduled process_video(p) starts: no queued job of that path, return
\* None; else move the job to processing_jobs and run up to the first await.
StartTask ==
  /\ loop = "running"
  /\ ready # <<>>
  /\ LET p == Head(ready)
         i == FindJob(job_queue, p)
     IN \/ /\ i = 0
           /\ ready' = Tail(ready)
           /\ invocations' = Append(invocations, 0)
           /\ UNCHANGED <<loop, starts, nextId, Config, job, db, job_queue,
                          processing_jobs, run, inflight, hist, lastCall, released,
                          raisedBy, dlOk, dlMixed, phrase_folders, apart>>
        \/ /\ i > 0
           /\ \E f \in Saves(Begin(p)), saveOk \in SaveOutcomes :
                Advance(job_queue[i], Begin(p), None, <<>>, f, saveOk,
                        processing_jobs \cup {job_queue[i]}, {}, Nothing)
           /\ job_queue' = RemoveAt(job_queue, i)
           /\ ready' = Tail(ready)
           /\ invocations' = Append(invocations, job_queue[i])
           /\ UNCHANGED <<loop, starts, nextId, Config, dlOk, dlMixed,
                          phrase_folders, apart>>

\* what the coroutine does with the result of an awaited call: an exception
\* leaves _execute_pipeline, a value lets it go on
\* a transcription error that is logged and swallowed
OnTranscribe_Swallow(res) == AfterTranscribe(res.val)
OnTranscribe(res) == IF res.exc THEN Raise(res.msg) ELSE AfterTranscribe(res.val)
OnExtract(res) == IF res.exc THEN Raise(res.msg) ELSE AfterExtract
OnLayout(phrases, res) == IF res.exc THEN Raise(res.msg) ELSE AfterLayout(phrases)
OnSearch(k, res) == IF res.exc THEN Raise(res.msg) ELSE AfterSearch(k, res.val)
OnEvaluate(k, res) ==
  IF res.exc THEN Raise(res.msg) ELSE AfterEvaluate(k, Truncate(res.val))
OnDownload(phrases, k, r) ==
  IF r.exc THEN Raise("mkdir failed") ELSE AfterDownload(phrases, k)
OnUpload(res) == IF res.exc THEN Raise(res.msg) ELSE AfterUpload(res.val)
\* a send_notification without its try/except
OnNotify_NoCatch(res) == IF res.exc THEN Raise(res.msg) ELSE MarkCompleted
\* send_notification catches what the call raises
OnNotify(res) == MarkCompleted

PhraseList(n) == [i \in 1..n |-> i]

Cause(res, kind) == IF res.exc THEN [kind |-> kind, msg |-> res.msg] ELSE Nothing

Rest == <<loop, starts, nextId, Config, job_queue, ready, invocations, apart>>

TranscribeReturn(j) ==
  /\ Waiting(j, "transcribe")
  /\ \E res \in transcribe_audio_results :
       \E f \in Saves(OnTranscribe(res)), saveOk \in SaveOutcomes :
         Advance(j, OnTranscribe(res), IF res.exc THEN None ELSE res.val, <<>>,
                 f, saveOk, processing_jobs, {Awaited(j)},
                 Cause(res, "transcribe"))
  /\ UNCHANGED <<Rest, dlOk, dlMixed, phrase_folders>>

ExtractReturn(j) ==
  /\ Waiting(j, "extract")
  /\ \E res \in extract_search_phrases_results :
       \E f \in Saves(OnExtract(res)), saveOk \in SaveOutcomes :
         Advance(j, OnExtract(res), run[j].transcript, PhraseList(res.val), f, saveOk,
                 processing_jobs, {Awaited(j)}, Cause(res, "extract"))
  /\ UNCHANGED <<Rest, dlOk, dlMixed, phrase_folders>>

LayoutReturn(j) ==
  /\ Waiting(j, "layout")
  /\ \E res \in create_project_structure_results :
       \E f \in Saves(OnLayout(run[j].search_phrases, res)), saveOk \in SaveOutcomes :
         Advance(j, OnLayout(run[j].search_phrases, res), run[j].transcript, run[j].search_phrases,
                 f, saveOk, processing_jobs, {Awaited(j)}, Cause(res, "layout"))
  /\ UNCHANGED <<Rest, dlOk, dlMixed, phrase_folders>>

SearchReturn(j) ==
  /\ Waiting(j, "search")
  /\ \E res \in search_videos_results :
       \E f \in Saves(OnSearch(run[j].k, res)), saveOk \in SaveOutcomes :
         Advance(j, OnSearch(run[j].k, res), run[j].transcript, run[j].search_phrases, f, saveOk,
                 processing_jobs, {Awaited(j)}, Cause(res, "search"))
  /\ UNCHANGED <<Rest, dlOk, dlMixed, phrase_folders>>

EvaluateReturn(j) ==
  /\ Waiting(j, "evaluate")
  /\ \E res \in evaluate_videos_results(run[j].arg) :
       \E f \in Saves(OnEvaluate(run[j].k, res)), saveOk \in SaveOutcomes :
         Advance(j, OnEvaluate(run[j].k, res), run[j].transcript, run[j].search_phrases, f, saveOk,
                 processing_jobs, {Awaited(j)}, Cause(res, "evaluate"))
  /\ UNCHANGED <<Rest, dlOk, dlMixed, phrase_folders>>

\* a candidate whose download raised is followed by one that was downloaded
Mixed(out) ==
  \E a, b \in DOMAIN out : a < b /\ out[a] = "raise" /\ out[b] = "file"

DownloadReturn(j) ==
  /\ Waiting(j, "download")
  /\ \E mkdirOk \in BOOLEAN, out \in [1..run[j].arg -> Outcomes] :
       LET videos == Videos(run[j].arg)
           r == download_videos_to_folder(videos, mkdirOk, out)
           piece == OnDownload(run[j].search_phrases, run[j].k, r)
           mkdirFailed == videos # <<>> /\ ~mkdirOk
       IN /\ \E f \in Saves(piece), saveOk \in SaveOutcomes :
               Advance(j, piece, run[j].transcript, run[j].search_phrases, f, saveOk,
                       processing_jobs, {Awaited(j)},
                       IF ~r.exc THEN Nothing
                       ELSE [kind |-> IF mkdirFailed THEN "mkdir" ELSE "download",
                             msg |-> "mkdir failed"])
          /\ dlOk' = (dlOk /\ (~mkdirFailed =>
                                 /\ ~r.exc
                                 /\ r.attempted = videos
                                 /\ r.files = Downloaded(videos, out)))
          /\ dlMixed' = [dlMixed EXCEPT ![j] = @ \/ (~mkdirFailed /\ Mixed(out))]
          /\ phrase_folders' =
               [phrase_folders EXCEPT ![j] =
                  IF r.folder THEN Extend(@, run[j].k, r.files # <<>>) ELSE @]
  /\ UNCHANGED Rest

UploadReturn(j) ==
  /\ Waiting(j, "upload")
  /\ \E res \in upload_folder_results :
       \E f \in Saves(OnUpload(res)), saveOk \in SaveOutcomes :
         Advance(j, OnUpload(res), run[j].transcript, run[j].search_phrases, f, saveOk,
                 processing_jobs, {Awaited(j)}, Cause(res, "upload"))
  /\ UNCHANGED <<Rest, dlOk, dlMixed, phrase_folders>>

NotifyReturn(j) ==
  /\ Waiting(j, "notify")
  /\ \E res \in send_notification_results :
       \E f \in Saves(OnNotify(res)), saveOk \in SaveOutcomes :
         Advance(j, OnNotify(res), run[j].transcript, run[j].search_phrases, f, saveOk,
                 processing_jobs, {Awaited(j)}, Nothing)
  /\ UNCHANGED <<Rest, dlOk, dlMixed, phrase_folders>>

\* ------------------------------------------------------------------ start, resume_incomplete_jobs
RECURSIVE Ascending(_)
Ascending(S) ==
  IF S = {} THEN <<>>
  ELSE LET m == CHOOSE x \in S : \A y \in S : x <= y
       IN <<m>> \o Ascending(S \ {m})

\* load_incomplete_jobs: the ids of the rows selected, ORDER BY created_at
load_incomplete_jobs(d) ==
  Ascending({j \in DOMAIN d : d[j].status \in incomplete_statuses})

\* resume_incomplete_jobs, per loaded job: the object it appends to job_queue
Resumed(jr) ==
  IF jr.status \in in_progress_statuses THEN update_status(jr, QUEUED, None) ELSE jr

\* the statuses the object built by from_dict has had once it is resumed
ResumedHist(jr) ==
  IF jr.status \in in_progress_statuses THEN <<jr.status, QUEUED>> ELSE <<jr.status>>

\* the supported files _process_existing_files may find in the input folder
ExistingFiles ==
  {<<>>} \cup {<<p>> : p \in LocalPaths}
         \cup {<<p, q>> : p \in LocalPaths, q \in LocalPaths}

\* BRollProcessor.start in a new process (the first, or one started after the
\* previous loop was closed): nothing is left in memory; the incomplete jobs
\* are loaded and queued; _process_existing_files hands every file of `files`
\* to _handle_new_file; one process_video task is created per queued job.
\* The tasks made by create_task start before the coroutines handed over by
\* run_coroutine_threadsafe.  `first` holds the file_path of a process_video
\* call the caller of start makes itself before it yields to the loop (none
\* for the service, one for the single-file command).
Start(files, first) ==
  /\ loop \in {"none", "closed"}
  /\ starts < limits.starts
  /\ nextId + Len(files) - 1 <= limits.jobs
  /\ \A a, b \in DOMAIN files : a # b => files[a] # files[b]
  /\ LET loaded == load_incomplete_jobs(db)
         fresh == [i \in 1..Len(files) |-> nextId + i - 1]
         queue == loaded \o fresh
         obj(j) == IF j \in Range(loaded) THEN Resumed(db[j])
                   ELSE NewJob(files[j - nextId + 1])
         ids == Range(queue)
     IN /\ job' = [j \in ids |-> obj(j)]
        /\ db' = [j \in DOMAIN db \cup ids |-> IF j \in ids THEN obj(j) ELSE db[j]]
        /\ job_queue' = queue
        /\ ready' = first \o [i \in 1..Len(queue) |-> obj(queue[i]).file_path]
                        \o files
        /\ hist' = [j \in ids |-> IF j \in Range(loaded) THEN ResumedHist(db[j])
                                  ELSE <<QUEUED>>]
        /\ run' = [j \in ids |-> NoRun]
        /\ lastCall' = [j \in ids |-> NoCall]
        /\ released' = [j \in ids |-> 0]
        /\ raisedBy' = [j \in ids |-> Nothing]
        /\ dlMixed' = [j \in ids |-> FALSE]
        /\ phrase_folders' = [j \in ids |-> <<>>]
        /\ nextId' = nextId + Len(files)
  /\ loop' = "running"
  /\ starts' = starts + 1
  /\ processing_jobs' = {}
  /\ inflight' = {}
  /\ invocations' = <<>>
  /\ UNCHANGED <<Config, dlOk, apart>>

\* ------------------------------------------------------------------ main.py
\* BRollApp.process_single_file(p): a new processor is started and
\* process_video(p, source) is awaited at once, with no job created for p.
ProcessSingleFile(files, p) == limits = CommandLimits /\ Start(files, <<p>>)

\* BRollApp._signal_handler, then asyncio.run winding up: every task still
\* pending is cancelled.  A coroutine suspended at an await gets CancelledError
\* there, which `except Exception` does not catch, so only its finally clause
\* runs; a coroutine not yet started never runs.  The loop is then closed.
Cancelled(j) == j \in DOMAIN run /\ run[j].pc \in AwaitPcs

RECURSIVE CancelAll(_, _)
CancelAll(pj, S) ==
  IF S = {} THEN pj
  ELSE LET j == CHOOSE x \in S : TRUE IN CancelAll(Finally(pj, j), S \ {j})

Shutdown ==
  /\ loop = "running"
  /\ loop' = "closed"
  /\ run' = [j \in DOMAIN run |->
               IF Cancelled(j) THEN [run[j] EXCEPT !.pc = "cancelled"] ELSE run[j]]
  /\ processing_jobs' = CancelAll(processing_jobs, {j \in DOMAIN run : Cancelled(j)})
  /\ released' = [j \in DOMAIN released |->
                    IF Cancelled(j) THEN released[j] + 1 ELSE released[j]]
  /\ ready' = <<>>
  /\ inflight' = {}
  /\ UNCHANGED <<starts, nextId, Config, job, db, job_queue, hist, lastCall,
                 raisedBy, dlOk, dlMixed, phrase_folders, invocations, apart>>

\* ------------------------------------------------------------------ specification
Next ==
  \/ \E files \in ExistingFiles : Start(files, <<>>)
  \/ \E files \in ExistingFiles, p \in Paths : ProcessSingleFile(files, p)
  \/ \E p \in Paths : HandleNewFile(p)
  \/ StartTask
  \/ \E j \in DOMAIN run : TranscribeReturn(j)
  \/ \E j \in DOMAIN run : ExtractReturn(j)
  \/ \E j \in DOMAIN run : LayoutReturn(j)
  \/ \E j \in DOMAIN run : SearchReturn(j)
  \/ \E j \in DOMAIN run : EvaluateReturn(j)
  \/ \E j \in DOMAIN run : DownloadReturn(j)
  \/ \E j \in DOMAIN run : UploadReturn(j)
  \/ \E j \in DOMAIN run : NotifyReturn(j)
  \/ Shutdown

Spec == Init /\ [][Next]_vars

\* The event loop runs every task that is ready, and a call running in the
\* executor returns or raises: a scheduled process_video call starts, and a
\* coroutine whose call is done is resumed.  The process may still be stopped
\* at any time.
JobIds == 1..(IF MaxJobs > SysJobs THEN MaxJobs ELSE SysJobs)

Resume(j) ==
  \/ TranscribeReturn(j)
  \/ ExtractReturn(j)
  \/ LayoutReturn(j)
  \/ SearchReturn(j)
  \/ EvaluateReturn(j)
  \/ DownloadReturn(j)
  \/ UploadReturn(j)
  \/ NotifyReturn(j)

LiveSpec ==
  /\ Init
  /\ [][Next]_vars
  /\ WF_vars(StartTask)
  /\ \A j \in JobIds : WF_vars(Resume(j))

\* ------------------------------------------------------------------ one wrapped call
pipeline ==
  <<limits, loop, starts, nextId, notification_service, drive_service, job,
    db, job_queue, processing_jobs, ready, run, inflight, hist, lastCall,
    released, raisedBy, dlOk, dlMixed, phrase_folders, invocations>>

\* a call of a wrapped function, the processor idle
RetryInit ==
  /\ limits = RunLimits
  /\ loop = "none"
  /\ starts = 0
  /\ nextId = 1
  /\ notification_service = FALSE
  /\ drive_service = FALSE
  /\ job = <<>>
  /\ db = <<>>
  /\ job_queue = <<>>
  /\ processing_jobs = {}
  /\ ready = <<>>
  /\ run = <<>>
  /\ inflight = {}
  /\ hist = <<>>
  /\ lastCall = <<>>
  /\ released = <<>>
  /\ raisedBy = <<>>
  /\ dlOk = TRUE
  /\ dlMixed = <<>>
  /\ phrase_folders = <<>>
  /\ monitor = NoMonitor
  /\ evaluation = NoEvaluation
  /\ invocations = <<>>
  /\ naming = NoNaming
  /\ retry \in {Wrapper(d) : d \in Decorators}

RetryInvoke ==
  /\ retry.pc = "call"
  /\ \E outcome \in {"ok"} \cup Classes, u \in Draws :
       retry' = Invoked(retry, outcome, u)
  /\ UNCHANGED <<pipeline, monitor, evaluation, naming>>

RetryWake ==
  /\ retry.pc = "sleeping"
  /\ retry' = Woken(retry)
  /\ UNCHANGED <<pipeline, monitor, evaluation, naming>>

RetryNext == RetryInvoke \/ RetryWake

RetrySpec == RetryInit /\ [][RetryNext]_vars

\* ------------------------------------------------------------------ one phrase evaluated
\* the iteration of the phrase loop for one phrase, from the results of the
\* search on, the processor idle
EvalInit ==
  /\ limits = RunLimits
  /\ loop = "none"
  /\ starts = 0
  /\ nextId = 1
  /\ notification_service = FALSE
  /\ drive_service = FALSE
  /\ job = <<>>
  /\ db = <<>>
  /\ job_queue = <<>>
  /\ processing_jobs = {}
  /\ ready = <<>>
  /\ run = <<>>
  /\ inflight = {}
  /\ hist = <<>>
  /\ lastCall = <<>>
  /\ released = <<>>
  /\ raisedBy = <<>>
  /\ dlOk = TRUE
  /\ dlMixed = <<>>
  /\ phrase_folders = <<>>
  /\ retry = NoRetry
  /\ monitor = NoMonitor
  /\ invocations = <<>>
  /\ naming = NoNaming
  /\ evaluation \in
       {Evaluation(v, a, m) :
          v \in {{}, FoundIds}, a \in ItemLists(MaxItems), m \in 1..MaxLimit}

\* scored_videos = await self.evaluate_videos(phrase, video_results)
EvalEvaluate ==
  /\ evaluation.pc = "evaluate"
  /\ evaluation' =
       [evaluation EXCEPT
          !.pc = "download",
          !.scored_videos = evaluate_videos(evaluation.video_results,
                                            evaluation.scored_results,
                                            evaluation.max_videos)]
  /\ UNCHANGED <<pipeline, retry, monitor, naming>>

\* downloaded_files = download_videos_to_folder(scored_videos, ...)
EvalDownload ==
  /\ evaluation.pc = "download"
  /\ \E mkdirOk \in BOOLEAN,
        out \in [1..Len(evaluation.scored_videos) -> Outcomes] :
       LET r == download_videos_to_folder(evaluation.scored_videos, mkdirOk, out)
       IN evaluation' =
            [evaluation EXCEPT
               !.pc = IF r.exc THEN "raised" ELSE "done",
               !.downloaded_files = [i \in DOMAIN r.files |-> FileOf(r.files[i])]]
  /\ UNCHANGED <<pipeline, retry, monitor, naming>>

EvalNext == EvalEvaluate \/ EvalDownload

EvalSpec == EvalInit /\ [][EvalNext]_vars

\* ------------------------------------------------------------------ a FileMonitor at work
\* a FileMonitor with a local folder, a Drive folder or both, the processor idle
WatchInit ==
  /\ limits = RunLimits
  /\ loop = "none"
  /\ starts = 0
  /\ nextId = 1
  /\ notification_service = FALSE
  /\ drive_service = FALSE
  /\ job = <<>>
  /\ db = <<>>
  /\ job_queue = <<>>
  /\ processing_jobs = {}
  /\ ready = <<>>
  /\ run = <<>>
  /\ inflight = {}
  /\ hist = <<>>
  /\ lastCall = <<>>
  /\ released = <<>>
  /\ raisedBy = <<>>
  /\ dlOk = TRUE
  /\ dlMixed = <<>>
  /\ phrase_folders = <<>>
  /\ retry = NoRetry
  /\ evaluation = NoEvaluation
  /\ invocations = <<>>
  /\ naming = NoNaming
  /\ monitor \in
       {Monitor(TRUE, FALSE, f, {}) : f \in SUBSET Files}
         \cup {Monitor(FALSE, TRUE, {}, r) : r \in SUBSET DriveIds}

WatchRest == <<pipeline, retry, evaluation, naming>>

\* start_monitoring: _start_local_monitoring begins if a local folder is
\* configured, the polling task is created if a Drive folder is
StartMonitoring ==
  /\ monitor.pc = "created"
  /\ monitor' = [monitor EXCEPT
                   !.pc = "started",
                   !.running = TRUE,
                   !.todo = IF monitor.local THEN start_local_monitoring ELSE <<>>,
                   !.task = IF monitor.drive THEN "initial" ELSE "none"]
  /\ UNCHANGED WatchRest

Doing(step) == monitor.todo # <<>> /\ Head(monitor.todo) = step

\* _process_existing_files: folder.iterdir() lists the folder
ListFolder ==
  /\ Doing("list")
  /\ \E q \in Orders(monitor.folder) :
       monitor' = [monitor EXCEPT
                     !.todo = Tail(@),
                     !.existing = q,
                     !.stable = {p \in monitor.folder : IsSupported(p)}]
  /\ UNCHANGED WatchRest

\* _process_existing_files: the next file of the listing, or its end
ProcessExisting ==
  /\ Doing("existing")
  /\ IF monitor.existing = <<>>
       THEN monitor' = [monitor EXCEPT !.todo = Tail(@)]
       ELSE LET p == Head(monitor.existing)
            IN monitor' =
                 [monitor EXCEPT
                    !.existing = Tail(@),
                    !.reported =
                       IF Exists(monitor.folder, p) /\ IsSupported(p)
                         THEN Append(@, Report(p, "local", "existing", 0,
                                               monitor.observer))
                         ELSE @]
  /\ UNCHANGED WatchRest

\* self.observer.start()
StartObserver ==
  /\ Doing("observe")
  /\ monitor' = [monitor EXCEPT !.todo = Tail(@), !.observer = TRUE]
  /\ UNCHANGED WatchRest

\* someone puts file p into the local input folder; a running observer
\* queues a created event
CreateFile(p) ==
  /\ monitor.local
  /\ monitor.pc = "started"
  /\ p \notin monitor.folder
  /\ monitor.created < MaxCreates
  /\ monitor' = [monitor EXCEPT
                   !.folder = @ \cup {p},
                   !.created = @ + 1,
                   !.events = IF monitor.observer THEN Append(@, p) ELSE @]
  /\ UNCHANGED WatchRest

\* someone removes file p from the local input folder
DeleteFile(p) ==
  /\ monitor.local
  /\ monitor.pc = "started"
  /\ p \in monitor.folder
  /\ monitor' = [monitor EXCEPT !.folder = @ \ {p}, !.stable = @ \ {p}]
  /\ UNCHANGED WatchRest

\* VideoFileHandler.on_created up to time.sleep(2): the observer thread
\* takes the next event
OnCreated ==
  /\ monitor.pc = "started"
  /\ monitor.handling = None
  /\ monitor.events # <<>>
  /\ LET p == Head(monitor.events)
     IN monitor' =
          [monitor EXCEPT
             !.events = Tail(@),
             !.handling = IF IsSupported(p) /\ p \notin monitor.processed_files
                            THEN p ELSE None,
             !.skipped = IF IsSupported(p) /\ p \in monitor.processed_files
                           THEN @ \cup {p} ELSE @]
  /\ UNCHANGED WatchRest

\* on_created after the sleep: `if file_path.exists()`
Recheck ==
  /\ monitor.pc = "started"
  /\ monitor.handling # None
  /\ LET p == monitor.handling
     IN monitor' =
          IF Exists(monitor.folder, p)
            THEN [monitor EXCEPT
                    !.handling = None,
                    !.processed_files = Processed(@, p),
                    !.reported = Append(@, Report(p, "local", "created", 0,
                                                  monitor.observer))]
            ELSE [monitor EXCEPT !.handling = None, !.vanished = @ \cup {p}]
  /\ UNCHANGED WatchRest

\* someone puts file id into the Drive input folder, or takes it out
RemoteAdd(id) ==
  /\ monitor.drive
  /\ monitor.pc = "started"
  /\ id \notin monitor.remote
  /\ monitor.uploads < MaxUploads
  /\ monitor' = [monitor EXCEPT !.remote = @ \cup {id}, !.uploads = @ + 1]
  /\ UNCHANGED WatchRest

RemoteRemove(id) ==
  /\ monitor.drive
  /\ monitor.pc = "started"
  /\ id \in monitor.remote
  /\ monitor' = [monitor EXCEPT !.remote = @ \ {id}]
  /\ UNCHANGED WatchRest

\* _monitor_drive_folder: await self._update_known_drive_files(folder_id);
\* if the listing raises, the exception ends the task
InitialListing ==
  /\ monitor.task = "initial"
  /\ \E ok \in BOOLEAN :
       monitor' =
         IF ok
           THEN [monitor EXCEPT
                   !.task = "polling",
                   !.initial = monitor.remote,
                   !.known_drive_files = {id \in monitor.remote : IsVideoFile(id)}]
           ELSE [monitor EXCEPT !.task = "ended"]
  /\ UNCHANGED WatchRest

\* _monitor_drive_folder, one round of the loop: the sleep is over and
\* _check_for_new_drive_files runs; a listing that raises is logged
Poll ==
  /\ monitor.task = "polling"
  /\ monitor.polls < MaxPolls
  /\ \E ok \in BOOLEAN, files \in Orders(monitor.remote),
        got \in [monitor.remote -> {"copied", "failed", "raises"}] :
       LET m == [monitor EXCEPT
                   !.polls = @ + 1,
                   !.rounds = Append(@, [error |-> ~ok,
                                         listed |-> monitor.remote,
                                         sleep |-> Interval(Escapes(ok))])]
       IN monitor' = IF ok THEN CheckFiles(m, files, got) ELSE m
  /\ UNCHANGED WatchRest

WatchNext ==
  \/ StartMonitoring
  \/ ListFolder
  \/ ProcessExisting
  \/ StartObserver
  \/ \E p \in Files : CreateFile(p)
  \/ \E p \in Files : DeleteFile(p)
  \/ OnCreated
  \/ Recheck
  \/ \E id \in DriveIds : RemoteAdd(id)
  \/ \E id \in DriveIds : RemoteRemove(id)
  \/ InitialListing
  \/ Poll

WatchSpec == WatchInit /\ [][WatchNext]_vars

\* ------------------------------------------------------------------ one name sanitized
\* a name handed to one of the sanitizers, and the result handed to it again,
\* the processor idle
NameInit ==
  /\ limits = RunLimits
  /\ loop = "none"
  /\ starts = 0
  /\ nextId = 1
  /\ notification_service = FALSE
  /\ drive_service = FALSE
  /\ job = <<>>
  /\ db = <<>>
  /\ job_queue = <<>>
  /\ processing_jobs = {}
  /\ ready = <<>>
  /\ run = <<>>
  /\ inflight = {}
  /\ hist = <<>>
  /\ lastCall = <<>>
  /\ released = <<>>
  /\ raisedBy = <<>>
  /\ dlOk = TRUE
  /\ dlMixed = <<>>
  /\ phrase_folders = <<>>
  /\ invocations = <<>>
  /\ retry = NoRetry
  /\ monitor = NoMonitor
  /\ evaluation = NoEvaluation
  /\ naming \in {Naming(f, s) : f \in Sanitizers, s \in Names}

SanitizeName ==
  /\ naming.pc = "name"
  /\ naming' = [naming EXCEPT !.pc = "once", !.once = sanitize(naming.f, naming.name)]
  /\ UNCHANGED <<pipeline, retry, monitor, evaluation>>

SanitizeAgain ==
  /\ naming.pc = "once"
  /\ naming' = [naming EXCEPT !.pc = "twice", !.twice = sanitize(naming.f, naming.once)]
  /\ UNCHANGED <<pipeline, retry, monitor, evaluation>>

NameNext == SanitizeName \/ SanitizeAgain

NameSpec == NameInit /\ [][NameNext]_vars

\* ------------------------------------------------------------------ properties
\* the jobs in processing_jobs whose file_path is p
Active(p) == {j \in processing_jobs : job[j].file_path = p}

\* C1: at any time at most one job of a given file_path is in
\* processing_jobs, whatever detections, starts and run endings came before.
C1_OneActiveRunPerPath ==
  \A p \in Paths : Cardinality(Active(p)) <= 1

\* C2: a detection of a file_path whose job is in processing_jobs is dropped:
\* the step creates no job of that file_path.
C2_SecondDetectionDropped ==
  [][\A j \in DOMAIN job' \ DOMAIN job : Active(job'[j].file_path) = {}]_vars

Ended(j) == run[j].pc \in {"returned", "raised", "cancelled"}

\* C3: a started run is popped from processing_jobs exactly once, however it
\* ends (return, exception, cancellation), and a job is in processing_jobs
\* exactly while its coroutine is suspended at an await of the pipeline.
C3_ReleasedExactlyOnce ==
  /\ processing_jobs \subseteq DOMAIN run
  /\ \A j \in DOMAIN run :
       /\ j \in processing_jobs <=> run[j].pc \in AwaitPcs
       /\ released[j] = IF Ended(j) THEN 1 ELSE 0

\* a run that an exception of a collaborator ended has been released
C3_Witness ==
  \E j \in DOMAIN run :
    /\ run[j].pc = "raised"
    /\ raisedBy[j].kind \in AwaitPcs
    /\ released[j] = 1
    /\ j \notin processing_jobs

\* C4: when the transcription, the phrase extraction or the creation of the
\* project structure raises, the run ends at once: the job is FAILED, its
\* error_message is the text of the exception (left as it was when the text
\* is empty), and the call that raised is the last call of the run.
C4_PrerequisiteFailureFailsRun ==
  \A j \in DOMAIN run :
    raisedBy[j].kind \in {"transcribe", "extract", "layout"} =>
      /\ job[j].status = FAILED
      /\ Last(hist[j]) = FAILED
      /\ job[j].error_message =
           IF raisedBy[j].msg = "" THEN None ELSE raisedBy[j].msg
      /\ run[j].pc = "raised"
      /\ lastCall[j].kind = raisedBy[j].kind
      /\ \A c \in inflight : c.job # j

\* a run whose phrase extraction raised "err"
C4_Witness ==
  \E j \in DOMAIN run :
    /\ raisedBy[j] = [kind |-> "extract", msg |-> "err"]
    /\ job[j].status = FAILED
    /\ job[j].error_message = "err"

\* the statuses of the current run: hist from its last QUEUED on
RunHist(h) ==
  LET Q == {i \in DOMAIN h : h[i] = QUEUED}
      i0 == IF Q = {} THEN 1 ELSE CHOOSE i \in Q : \A i2 \in Q : i2 <= i
  IN SubSeq(h, i0, Len(h))


\* the order of the specification for a run of n phrases, LAYOUT read as
\* ORGANIZING and SEARCHING as SEARCHING_YOUTUBE
SpecOrder(n) ==
  <<QUEUED, TRANSCRIBING, EXTRACTING_PHRASES, ORGANIZING>>
    \o Repeat(<<SEARCHING_YOUTUBE, DOWNLOADING>>, n)
    \o <<"notifying", COMPLETED>>

\* C5 as stated: a completed run has gone through QUEUED, TRANSCRIBING,
\* EXTRACTING_PHRASES, LAYOUT, then SEARCHING and DOWNLOADING once per phrase,
\* then NOTIFYING, then COMPLETED.
C5_SpecOrder ==
  \A j \in DOMAIN hist :
    job[j].status = COMPLETED =>
      \E n \in 1..(limits.phrases + 1) : RunHist(hist[j]) = SpecOrder(n)

\* the order of _execute_pipeline and process_video for a run of n phrases
CodeOrder(n, drive) ==
  <<QUEUED, TRANSCRIBING, EXTRACTING_PHRASES, ORGANIZING, SEARCHING_YOUTUBE>>
    \o Repeat(<<DOWNLOADING>>, n)
    \o (IF drive THEN <<UPLOADING>> ELSE <<>>)
    \o <<COMPLETED>>

\* C5 (amended): the statuses of a run are a prefix of QUEUED, TRANSCRIBING,
\* EXTRACTING_PHRASES, ORGANIZING, SEARCHING_YOUTUBE, DOWNLOADING once per
\* phrase, UPLOADING if a Drive service is configured, COMPLETED; or such a
\* prefix followed by FAILED; a completed run shows the whole order.
C5_CodeOrder ==
  \A j \in DOMAIN hist :
    LET h == RunHist(hist[j])
    IN /\ job[j].status = COMPLETED =>
            h = CodeOrder(Len(run[j].search_phrases), drive_service)
       /\ \E n \in 0..limits.phrases :
            \/ Prefix(h, CodeOrder(n, drive_service))
            \/ /\ Last(h) = FAILED
               /\ Prefix(Front(h), CodeOrder(n, drive_service))

\* a completed run of two phrases with a Drive service configured
C5_Witness ==
  \E j \in DOMAIN hist :
    /\ job[j].status = COMPLETED
    /\ Len(run[j].search_phrases) = 2
    /\ drive_service
    /\ run[j].pc = "returned"

\* the place of a call in the order of _execute_pipeline
CallRank(c) ==
  CASE c.kind = "none" -> 0
    [] c.kind = "transcribe" -> 1
    [] c.kind = "extract" -> 2
    [] c.kind = "layout" -> 3
    [] c.kind = "search" -> 3 * c.k + 1
    [] c.kind = "evaluate" -> 3 * c.k + 2
    [] c.kind = "download" -> 3 * c.k + 3
    [] c.kind = "upload" -> 3 * limits.phrases + 4
    [] c.kind = "notify" -> 3 * limits.phrases + 5

CallsOf(fl, j) == {c \in fl : c.job = j}

\* C6: a run has at most one call in flight; a call is issued only when the
\* one before it has returned, and it comes later in the order transcribe,
\* extract, layout, then search, evaluate, download of phrase 1, of phrase 2,
\* ..., upload, notify; a search is for phrase 1 or for the phrase after the
\* one just downloaded.
C6_CallsSequential ==
  [][\A j \in DOMAIN run' :
       /\ Cardinality(CallsOf(inflight', j)) <= 1
       /\ (j \in DOMAIN run /\ run'[j].pc \in AwaitPcs
             /\ (lastCall'[j] # lastCall[j] \/ run[j].pc \notin AwaitPcs)) =>
            /\ CallsOf(inflight', j) = {lastCall'[j]}
            /\ lastCall[j] \notin inflight'
            /\ CallRank(lastCall'[j]) > CallRank(lastCall[j])
            /\ lastCall'[j].kind = "search" =>
                 lastCall'[j].k = IF lastCall[j].kind = "download"
                                    THEN lastCall[j].k + 1 ELSE 1
  ]_vars

\* the search of phrase 2 is in flight, issued after the download of phrase 1
C6_Witness ==
  \E j \in DOMAIN run :
    /\ lastCall[j].kind = "search"
    /\ lastCall[j].k = 2
    /\ lastCall[j] \in inflight

\* the lifecycle order; FAILED counts as the last state
Rank(st) ==
  CASE st = QUEUED -> 0
    [] st = TRANSCRIBING -> 1
    [] st = EXTRACTING_PHRASES -> 2
    [] st = ORGANIZING -> 3
    [] st = SEARCHING_YOUTUBE -> 4
    [] st = DOWNLOADING -> 5
    [] st = UPLOADING -> 6
    [] st = COMPLETED -> 7
    [] st = FAILED -> 8

\* C7 as stated: every status change of a job object, the reset by
\* resume_incomplete_jobs included, moves it to a later state.
C7_NeverBack ==
  \A j \in DOMAIN hist :
    \A i \in 1..(Len(hist[j]) - 1) :
      hist[j][i + 1] # hist[j][i] => Rank(hist[j][i + 1]) > Rank(hist[j][i])

\* C7 (amended): every status change moves the job to a later state, except
\* the first change of a job loaded from the database in an in-progress
\* state, which resume_incomplete_jobs resets to QUEUED.
C7_BackOnlyOnResume ==
  \A j \in DOMAIN hist :
    \A i \in 1..(Len(hist[j]) - 1) :
      \/ hist[j][i + 1] = hist[j][i]
      \/ Rank(hist[j][i + 1]) > Rank(hist[j][i])
      \/ /\ i = 1
         /\ hist[j][1] \in in_progress_statuses
         /\ hist[j][2] = QUEUED

\* a job found DOWNLOADING at the start of a process, reset and run again
C7_Witness ==
  \E j \in DOMAIN hist :
    /\ Len(hist[j]) >= 3
    /\ hist[j][1] = DOWNLOADING
    /\ hist[j][2] = QUEUED
    /\ hist[j][3] = TRANSCRIBING

\* C8: a search or an evaluation that raises for one phrase does not make the
\* run FAILED.
C8_PhraseFailureScoped ==
  \A j \in DOMAIN run :
    raisedBy[j].kind \in {"search", "evaluate"} => job[j].status # FAILED

\* C9: a candidate whose download raises or yields nothing aborts neither the
\* download call nor the run: every download call attempts all its candidates
\* in order and returns exactly the files downloaded, no run is ended by a
\* candidate's exception, and a run that ends without another exception is
\* COMPLETED.
C9_CandidateFailureScoped ==
  /\ dlOk
  /\ \A j \in DOMAIN run :
       /\ raisedBy[j].kind # "download"
       /\ (dlMixed[j] /\ run[j].pc = "returned") => job[j].status = COMPLETED
       /\ (dlMixed[j] /\ run[j].pc = "raised") => raisedBy[j].kind # "none"

\* a completed run one of whose download calls had a raising candidate
\* followed by a downloaded one
C9_Witness ==
  \E j \in DOMAIN run :
    /\ dlMixed[j]
    /\ run[j].pc = "returned"
    /\ job[j].status = COMPLETED

\* C10: a run that has ended FAILED with a notification service configured
\* has, before its release, called the notification collaborator with the
\* failure status.
C10_FailureNotified ==
  \A j \in DOMAIN run :
    (notification_service /\ run[j].pc = "raised" /\ job[j].status = FAILED
       /\ released[j] = 1) =>
      /\ lastCall[j].kind = "notify"
      /\ lastCall[j].status = FAILED

\* the completion notification of job j's run was attempted and raised
NotificationRaised(j) ==
  /\ lastCall[j].kind = "notify"
  /\ run[j].pc \in {"returned", "raised"}
  /\ \A res \in send_notification_results : res.exc

\* C11: a completion notification that raises does not fail the run: the job
\* becomes COMPLETED, the coroutine returns with the job COMPLETED, and the
\* only exception that can still end the run is that of the save after
\* update_status(COMPLETED).
C11_NotificationFailureCaught ==
  \A j \in DOMAIN run :
    NotificationRaised(j) =>
      /\ COMPLETED \in Range(RunHist(hist[j]))
      /\ run[j].pc = "returned" => job[j].status = COMPLETED
      /\ run[j].pc = "raised" => raisedBy[j] = [kind |-> "db", msg |-> DbErr]

\* a run whose notification raised and which returned COMPLETED
C11_Witness ==
  \E j \in DOMAIN run :
    /\ NotificationRaised(j)
    /\ run[j].pc = "returned"
    /\ job[j].status = COMPLETED
    /\ db[j].status = COMPLETED

\* the transcription of job j's run has returned an empty or blank text
BlankTranscript(j) ==
  /\ run[j].transcript # None
  /\ BlankText(run[j].transcript)

\* C12: after an empty or blank transcript the phrase list is empty and the
\* only calls made are those of the project structure, the upload and the
\* notification: never the phrase extraction, a search, an evaluation or a
\* download.  The run returns COMPLETED; if it fails, the project structure,
\* the upload or the database raised.
C12_BlankTranscriptCompletes ==
  \A j \in DOMAIN run :
    BlankTranscript(j) =>
      /\ run[j].search_phrases = <<>>
      /\ lastCall[j].kind \in {"transcribe", "layout", "upload", "notify"}
      /\ DOWNLOADING \notin Range(RunHist(hist[j]))
      /\ run[j].pc = "returned" => job[j].status = COMPLETED
      /\ run[j].pc = "raised" => raisedBy[j].kind \in {"layout", "upload", "db"}

\* a run with an empty transcript that returned COMPLETED
C12_Witness ==
  \E j \in DOMAIN run :
    /\ BlankTranscript(j)
    /\ run[j].pc = "returned"
    /\ job[j].status = COMPLETED

\* an exception of class c is in the retryable set of decorator d
InRetryableSet(d, c) == \E b \in Bases(c) : b \in d.exceptions

\* C13: a wrapped call whose function fails k <= max_retries times with
\* retryable exceptions and then succeeds returns after k + 1 invocations and
\* k waits, and propagates nothing; a retryable exception is propagated only
\* as the failure number max_retries + 1.
C13_RetryThenSuccess ==
  /\ retry.pc = "returned" =>
       /\ retry.calls = retry.failures + 1
       /\ retry.failures = Len(retry.waits)
       /\ retry.failures <= retry.policy.max_retries
       /\ retry.raised = NoExc
  /\ (retry.pc = "raised" /\ InRetryableSet(retry.policy, retry.raised.class)) =>
       retry.failures = retry.policy.max_retries + 1

\* two failures, then success, with max_retries = 3
C13_Witness ==
  /\ retry.pc = "returned"
  /\ retry.policy.max_retries = 3
  /\ retry.failures = 2
  /\ retry.calls = 3

\* C14: when every attempt fails with a retryable exception the function has
\* been invoked max_retries + 1 times, there was one wait after each attempt
\* but the last, and the exception propagated is that of the last invocation.
C14_RetryExhausted ==
  (retry.pc = "raised" /\ InRetryableSet(retry.policy, retry.raised.class)) =>
    /\ retry.calls = retry.policy.max_retries + 1
    /\ retry.attempt = retry.policy.max_retries
    /\ Len(retry.waits) = retry.policy.max_retries
    /\ \A i \in DOMAIN retry.waits : retry.waits[i].attempt = i - 1
    /\ retry.raised.call = retry.calls
    /\ retry.raised = retry.last_exception

\* four failing attempts with max_retries = 3
C14_Witness ==
  /\ retry.pc = "raised"
  /\ InRetryableSet(retry.policy, retry.raised.class)
  /\ retry.policy.max_retries = 3
  /\ retry.calls = 4
  /\ Len(retry.waits) = 3

\* C15: an exception outside the retryable set is propagated by the
\* invocation that raised it, with no wait and no invocation after it (so a
\* first invocation that raises it is the only one); the wrapper never sleeps
\* or calls again after such an exception.
C15_NonRetryablePropagates ==
  /\ (retry.pc = "raised" /\ ~InRetryableSet(retry.policy, retry.raised.class)) =>
       /\ retry.raised.call = retry.calls
       /\ retry.calls = retry.failures
       /\ Len(retry.waits) = retry.failures - 1
  /\ (retry.pc \in {"sleeping", "call"} /\ retry.last_exception # NoExc) =>
       InRetryableSet(retry.policy, retry.last_exception.class)

\* a ValueError of the first invocation, propagated at once
C15_Witness ==
  /\ retry.pc = "raised"
  /\ retry.raised = [class |-> "ValueError", call |-> 1]
  /\ ~InRetryableSet(retry.policy, "ValueError")
  /\ retry.calls = 1
  /\ retry.waits = <<>>

\* validation, not-found and permission failures
FatalClasses == {"ValueError", "FileNotFoundError", "PermissionError"}

\* C16: under the decorators for API calls, file operations and downloads a
\* validation, not-found or permission failure is never retried: the wrapper
\* neither sleeps nor calls again after one.
C16_FatalNeverRetried ==
  (retry.policy \in ServiceDecorators /\ retry.last_exception.class \in FatalClasses) =>
    retry.pc = "raised"

\* C17 as stated: of two waits of a wrapped call the later is never shorter.
C17_BackoffMonotone ==
  \A i, j \in DOMAIN retry.waits :
    i < j => retry.waits[i].delay <= retry.waits[j].delay

\* the delay before cap and jitter
Raw(d, attempt) == d.base_delay * 2^attempt

\* C17 (amended): of the waits of attempts a < b the later is never shorter
\* as long as base_delay * 2^b does not exceed max_delay; beyond that it is
\* shorter by at most max_delay / 10.
C17_BackoffMonotoneBelowCap ==
  \A i, j \in DOMAIN retry.waits :
    i < j =>
      /\ Raw(retry.policy, retry.waits[j].attempt) <= retry.policy.max_delay =>
           retry.waits[i].delay <= retry.waits[j].delay
      /\ 10 * retry.waits[i].delay <=
           10 * retry.waits[j].delay + retry.policy.max_delay

\* a wait with the greatest jitter followed by a longer wait below the cap
C17_Witness ==
  \E i, j \in DOMAIN retry.waits :
    /\ i < j
    /\ retry.waits[i].u = 2
    /\ retry.waits[j].u = 0
    /\ Raw(retry.policy, retry.waits[j].attempt) <= retry.policy.max_delay
    /\ retry.waits[i].delay < retry.waits[j].delay

\* C18: no wait exceeds max_delay * 1.1.
C18_BackoffBounded ==
  \A i \in DOMAIN retry.waits :
    10 * retry.waits[i].delay <= 11 * retry.policy.max_delay

\* a wait at the cap with jitter on top
C18_Witness ==
  \E i \in DOMAIN retry.waits :
    /\ Raw(retry.policy, retry.waits[i].attempt) > retry.policy.max_delay
    /\ retry.waits[i].delay > retry.policy.max_delay

\* C19 as stated: the wait is min(base * 2^attempt + jitter, max_delay) and
\* never exceeds max_delay.
C19_CapAfterJitter ==
  \A i \in DOMAIN retry.waits :
    LET w == retry.waits[i]
        raw == Raw(retry.policy, w.attempt)
    IN /\ w.delay = Min(raw + Uniform(raw \div 10, w.u), retry.policy.max_delay)
       /\ w.delay <= retry.policy.max_delay

\* C19 (amended): the wait is min(base * 2^attempt, max_delay) + jitter, the
\* jitter drawn from 0 to a tenth of the capped delay.
C19_CapBeforeJitter ==
  \A i \in DOMAIN retry.waits :
    LET w == retry.waits[i]
        capped == Min(Raw(retry.policy, w.attempt), retry.policy.max_delay)
    IN /\ w.delay = capped + Uniform(capped \div 10, w.u)
       /\ w.delay - capped \in 0..(capped \div 10)

\* a wait whose delay was capped and whose jitter is the greatest
C19_Witness ==
  \E i \in DOMAIN retry.waits :
    /\ retry.waits[i].u = 2
    /\ Raw(retry.policy, retry.waits[i].attempt) > retry.policy.max_delay
    /\ retry.waits[i].delay = retry.policy.max_delay + retry.policy.max_delay \div 10

\* a step of _handle_new_file outside start: one job is created and the loop
\* stays as it is
Detection == nextId' = nextId + 1 /\ loop' = loop

\* C20: a detection runs no part of the pipeline itself: it creates the job
\* QUEUED, leaves its coroutine unstarted, changes no other job, no call and
\* not processing_jobs, and hands one process_video coroutine to the running
\* loop; a coroutine starts or advances only in steps of the running loop.
C20_DetectionOnlySchedules ==
  [][/\ Detection =>
          /\ job'[nextId].status = QUEUED
          /\ run'[nextId].pc = "queued"
          /\ lastCall'[nextId].kind = "none"
          /\ \A j \in DOMAIN run : run'[j] = run[j] /\ job'[j] = job[j]
          /\ processing_jobs' = processing_jobs
          /\ inflight' = inflight
          /\ ready' = IF loop = "running"
                        THEN Append(ready, job'[nextId].file_path) ELSE ready
     /\ \A j \in DOMAIN run \cap DOMAIN run' :
          (run'[j].pc # run[j].pc /\ run'[j].pc \notin {"queued", "cancelled"}) =>
            /\ loop = "running"
            /\ loop' = "running"
            /\ nextId' = nextId
    ]_vars

\* a job created by a detection after the start, its coroutine handed to the
\* loop and not yet started
C20_Witness ==
  /\ starts = 1
  /\ loop = "running"
  /\ job_queue = <<1>>
  /\ Len(ready) = 1
  /\ run[1].pc = "queued"
  /\ processing_jobs = {}

\* C21 as stated: a detection on the observer thread changes neither
\* job_queue nor processing_jobs nor a job object nor a row of the jobs table;
\* these change only in steps of the event loop.
C21_ObserverMutatesNothing ==
  [][(Detection /\ OnObserverThread(job'[nextId].file_path)) =>
       /\ job_queue' = job_queue
       /\ processing_jobs' = processing_jobs
       /\ job' = job
       /\ db' = db
    ]_vars

\* C22 as stated: a detection that finds the loop closed leaves nothing
\* behind: no coroutine is scheduled, job_queue and the jobs table stay as
\* they are.
C22_DroppedWhenLoopClosed ==
  [][(Detection /\ loop # "running") =>
       /\ ready' = ready
       /\ job_queue' = job_queue
       /\ db' = db
    ]_vars

\* C23 as stated: once the loop has been closed by a shutdown, every run that
\* had started is COMPLETED or FAILED.
C23_InFlightRunsFinish ==
  loop = "closed" =>
    \A j \in DOMAIN run :
      run[j].pc # "queued" => job[j].status \in {COMPLETED, FAILED}

\* the phrases of job j's run whose folder exists, and those with a file in it
Folders(j) == DOMAIN phrase_folders[j]
WithFile(j) == {k \in Folders(j) : phrase_folders[j][k]}

\* C24 as stated: when a run has returned, the number of phrase folders in
\* its project directory is the number of phrases with a downloaded file.
C24_FoldersMatchDownloads ==
  \A j \in DOMAIN run :
    run[j].pc = "returned" => Cardinality(Folders(j)) = Cardinality(WithFile(j))

\* job j's download call for an empty list of videos returns in this step
EmptyDownloadReturns(j) ==
  /\ run[j].pc = "download"
  /\ run[j].arg = 0
  /\ run'[j].pc \notin {"download", "cancelled"}

Unsupported(j) == ~is_supported_file(job[j].file_path) /\ run[j].pc # "queued"

\* C27: a run on a file without a supported extension ends before its first
\* await: no call is ever issued for it, TRANSCRIBING is set once, and the
\* job is FAILED with the text of the ValueError, or of the database error if
\* the save before the check raised.
C27_UnsupportedRejected ==
  \A j \in DOMAIN run :
    Unsupported(j) =>
      /\ lastCall[j].kind = "none"
      /\ \A c \in inflight : c.job # j
      /\ run[j].pc = "raised"
      /\ job[j].status = FAILED
      /\ RunHist(hist[j]) = <<QUEUED, TRANSCRIBING, FAILED>>
      /\ raisedBy[j].kind \in {"validation", "db"}
      /\ raisedBy[j].kind = "validation" =>
           job[j].error_message = "Unsupported file format"

\* a Drive file without a supported extension, rejected
C27_Witness ==
  \E j \in DOMAIN run :
    /\ job[j].file_path = "c.bin"
    /\ run[j].pc = "raised"
    /\ raisedBy[j] = [kind |-> "validation", msg |-> "Unsupported file format"]
    /\ db[j].status = FAILED

\* the entries of the evaluator's array that evaluate_videos keeps
Kept(e) == ScoredVideos(e.scored_results, e.video_results)

Descending(s) == \A a, b \in DOMAIN s : a < b => s[a].score >= s[b].score

\* how often x occurs in s
Count(s, x) == Cardinality({i \in DOMAIN s : s[i] = x})

\* C26: the videos handed to the download are at most max_videos_per_phrase,
\* in descending order of score, all of them kept entries of the evaluation,
\* none scored lower than a kept entry left out, and as many as the limit
\* and the number of kept entries allow; the files downloaded are files of
\* these videos, named by their score; with kept scores 9 and 7 and a limit
\* of 1 the one video handed over is the one scored 9.
C26_TopScoredTruncated ==
  LET e == evaluation
      sel == e.scored_videos
  IN e.pc \in {"download", "done", "raised"} =>
       /\ Len(sel) = Min(e.max_videos, IF e.video_results = {} THEN 0 ELSE Len(Kept(e)))
       /\ Descending(sel)
       /\ \A x \in Range(sel) : Count(sel, x) <= Count(Kept(e), x)
       /\ \A x \in Range(Kept(e)) :
            Count(sel, x) < Count(Kept(e), x) =>
              \A y \in Range(sel) : y.score >= x.score
       /\ Len(e.downloaded_files) <= e.max_videos
       /\ \A f \in Range(e.downloaded_files) :
            \E x \in Range(sel) : f = FileOf(x)
       /\ (e.max_videos = 1 /\ {x.score : x \in Range(Kept(e))} = {7, 9}) =>
            /\ Len(sel) = 1
            /\ sel[1].score = 9

\* the evaluator lists the video scored 7 before the one scored 9, the limit
\* is 1, and the file downloaded is the one of score 9
C26_Witness ==
  /\ evaluation.pc = "done"
  /\ evaluation.max_videos = 1
  /\ evaluation.scored_results =
       <<[video_id |-> 1, score |-> 7], [video_id |-> 2, score |-> 9]>>
  /\ evaluation.downloaded_files = <<[prefix |-> 9, video_id |-> 2]>>

\* the calls of file_callback made by `via`, as positions of monitor.reported
Reports(via) == {i \in DOMAIN monitor.reported : monitor.reported[i].via = via}

\* C28: every call of the callback for a file already there is made before
\* the observer is started and before every call for a created file; once
\* the observer is started, every supported file that was listed and has
\* stayed in the folder has been reported; only supported files are reported.
C28_ExistingBeforeLive ==
  /\ \A i \in Reports("existing") :
       /\ ~monitor.reported[i].observer
       /\ IsSupported(monitor.reported[i].path)
       /\ \A j \in Reports("created") : i < j
  /\ monitor.observer =>
       \A p \in monitor.stable :
         \E i \in Reports("existing") : monitor.reported[i].path = p

\* a file already there was reported, then the observer reported a new one
C28_Witness ==
  /\ monitor.observer
  /\ Reports("existing") # {}
  /\ Reports("created") # {}
  /\ monitor.stable # {}

\* the handler's re-check of the file it sleeps on happens in this step
Rechecked == monitor.handling # None /\ monitor'.handling = None

\* C29: the handler sleeps only on a supported file it has not processed;
\* at the re-check a file that is still there is reported once and recorded
\* as processed, and a file that is gone is neither reported nor recorded.
C29_RecheckBeforeReport ==
  [][/\ monitor.handling # None =>
          /\ IsSupported(monitor.handling)
          /\ monitor.handling \notin monitor.processed_files
     /\ Rechecked =>
          IF monitor.handling \in monitor.folder
            THEN /\ monitor'.reported =
                      Append(monitor.reported,
                             Report(monitor.handling, "local", "created", 0, TRUE))
                 /\ monitor'.processed_files =
                      monitor.processed_files \cup {monitor.handling}
            ELSE /\ monitor'.reported = monitor.reported
                 /\ monitor'.processed_files = monitor.processed_files
    ]_vars

\* a created file was gone at the re-check: nothing reported, nothing recorded
C29_Witness ==
  /\ monitor.vanished # {}
  /\ monitor.handling = None
  /\ monitor.processed_files = {}
  /\ Reports("created") = {}

\* C30: every Drive id is reported at most once; an id of the first listing
\* is never reported; every report is for a video file whose id is known and
\* whose temporary copy exists, and hands over the path of that copy with the
\* source "google_drive".
C30_NewIdsReportedOnce ==
  \A i \in Reports("drive") :
    LET r == monitor.reported[i]
    IN /\ \A j \in Reports("drive") : monitor.reported[j].id = r.id => j = i
       /\ r.id \notin monitor.initial
       /\ IsVideoFile(r.id)
       /\ r.id \in monitor.known_drive_files
       /\ r.id \in monitor.temp
       /\ r.path = TempPath(r.id)
       /\ r.source = "google_drive"

\* after two polls: file 2 was in the first listing, file 1 came later, was
\* reported once and is still in the folder
C30_Witness ==
  /\ monitor.polls = 2
  /\ 2 \in monitor.initial
  /\ {1, 2} \subseteq monitor.remote
  /\ Cardinality(Reports("drive")) = 1
  /\ \E i \in Reports("drive") : monitor.reported[i].id = 1

\* C38 as stated: a job that has been COMPLETED is never FAILED afterwards,
\* and one that has been FAILED is never COMPLETED afterwards, whatever the
\* save that follows the change does.
C38_TerminalAbsorbing ==
  \A j \in DOMAIN hist :
    \A a, b \in DOMAIN hist[j] :
      a < b => /\ ~(hist[j][a] = COMPLETED /\ hist[j][b] = FAILED)
               /\ ~(hist[j][a] = FAILED /\ hist[j][b] = COMPLETED)

\* no job of job_queue has the file_path p
NoQueuedJob(p) == \A i \in DOMAIN job_queue : job[job_queue[i]].file_path # p

\* a scheduled process_video coroutine starts in this step
CoroutineStarts ==
  /\ loop = "running"
  /\ loop' = "running"
  /\ ready # <<>>
  /\ ready' = Tail(ready)

Taken(j) == Cardinality({i \in DOMAIN invocations : invocations[i] = j})

\* C35: a job is taken by at most one process_video call of a process and is
\* never run again in it: job_queue holds no job twice and no job that is in
\* processing_jobs; a job still in job_queue is QUEUED, has been taken by no
\* call and its coroutine has not started; a job that has been taken is out
\* of job_queue for the rest of the process, whether it is still running,
\* COMPLETED, FAILED or cancelled.
C35_RunAtMostOnce ==
  /\ \A a, b \in DOMAIN job_queue : a # b => job_queue[a] # job_queue[b]
  /\ Range(job_queue) \cap processing_jobs = {}
  /\ \A j \in DOMAIN job :
       /\ Taken(j) <= 1
       /\ j \in Range(job_queue) =>
            /\ Taken(j) = 0
            /\ job[j].status = QUEUED
            /\ run[j].pc = "queued"
       /\ j \notin Range(job_queue) => Taken(j) = 1 /\ run[j].pc # "queued"
       /\ job[j].status \in {COMPLETED, FAILED} => j \notin Range(job_queue)

\* a job has FAILED, and a later process_video call for its path has found
\* nothing to run
C35_Witness ==
  /\ invocations = <<1, 0>>
  /\ job[1].status = FAILED
  /\ job_queue = <<>>
  /\ processing_jobs = {}

\* job j's run is over in this process, COMPLETED or FAILED
Finished(j) ==
  /\ j \in DOMAIN run
  /\ run[j].pc \in {"returned", "raised"}
  /\ job[j].status \in {COMPLETED, FAILED}

\* C33: a path has no identity beyond a run.  A detection of a path of which
\* a run has finished creates a new job with an id of its own, QUEUED and
\* without error, whatever the outcome of the earlier run; the process_video
\* call that next looks for the path takes a queued job of it and starts its
\* run; and the finished job, its row and its history are left as they are by
\* every later step of the process.
C33_RedetectionRunsAfresh ==
  [][/\ \A j \in DOMAIN run :
          (Finished(j) /\ Detection /\ job'[nextId].file_path = job[j].file_path) =>
            /\ nextId \notin DOMAIN job
            /\ job'[nextId] = NewJob(job[j].file_path)
            /\ db'[nextId] = job'[nextId]
            /\ hist'[nextId] = <<QUEUED>>
            /\ run'[nextId].pc = "queued"
            /\ job_queue' = Append(job_queue, nextId)
            /\ loop = "running" => ready' = Append(ready, job[j].file_path)
     /\ (CoroutineStarts /\ ~NoQueuedJob(Head(ready))) =>
          \E j \in Range(job_queue) :
            /\ job[j].file_path = Head(ready)
            /\ invocations' = Append(invocations, j)
            /\ run'[j].pc # "queued"
            /\ Len(hist'[j]) > Len(hist[j])
            /\ hist'[j][Len(hist[j]) + 1] = TRANSCRIBING
     /\ \A j \in DOMAIN run :
          (Finished(j) /\ starts' = starts) =>
            /\ job'[j] = job[j]
            /\ db'[j] = db[j]
            /\ hist'[j] = hist[j]
            /\ run'[j] = run[j]
    ]_vars

\* two jobs of one path: the run of the first has FAILED, the run of the
\* second has COMPLETED
C33_Witness ==
  /\ invocations = <<1, 2>>
  /\ job[1].file_path = job[2].file_path
  /\ run[1].pc = "raised"
  /\ job[1].status = FAILED
  /\ run[2].pc = "returned"
  /\ job[2].status = COMPLETED
  /\ job[2].error_message = None

\* C34: runs go on independently.  While the loop runs, a coroutine
\* suspended at an awaited call can be resumed as soon as its call is done,
\* and a scheduled process_video call can start, whatever the other runs are
\* doing: no run waits for another run to finish.
C34_RunsIndependent ==
  loop = "running" =>
    /\ \A j \in DOMAIN run : run[j].pc \in AwaitPcs => ENABLED Resume(j)
    /\ ready # <<>> => ENABLED StartTask

\* job 1, taken first, is still waiting for its transcription while job 2,
\* of another file, has gone through all its stages and is COMPLETED
C34_Witness ==
  /\ invocations = <<1, 2>>
  /\ run[1].pc = "transcribe"
  /\ lastCall[1] \in inflight
  /\ run[2].pc = "returned"
  /\ job[2].status = COMPLETED
  /\ db[2].status = COMPLETED
  /\ job[1].file_path # job[2].file_path
  /\ job_queue = <<>>
  /\ processing_jobs = {1}

\* job j is COMPLETED or FAILED and in neither collection
Settled(j) ==
  /\ j \in DOMAIN job
  /\ job[j].status \in {COMPLETED, FAILED}
  /\ j \notin Range(job_queue)
  /\ j \notin processing_jobs

\* C36: for as long as the loop keeps running, every job of the process,
\* created by a detection or loaded at the start, is taken by a process_video
\* call and comes to be COMPLETED or FAILED and out of job_queue and
\* processing_jobs, given that every call returns or raises.
C36_EveryJobSettles ==
  \A j \in JobIds :
    (j \in DOMAIN job /\ loop = "running") ~> (Settled(j) \/ loop # "running")

\* a job created by a detection while the loop runs has been taken and is
\* COMPLETED, out of both collections, the loop still running
C36_Witness ==
  /\ loop = "running"
  /\ invocations = <<1>>
  /\ Settled(1)
  /\ job[1].status = COMPLETED
  /\ ready = <<>>

\* C31 as stated: an error of a listing, the first one included, does not
\* end the polling, and after a round whose listing raised the loop sleeps the
\* longer interval (60 s) instead of the usual one (30 s) before it tries
\* again.
C31_ErrorBacksOff ==
  /\ monitor.pc # "none" => monitor.task # "ended"
  /\ monitor.pc # "none" =>
       \A i \in DOMAIN monitor.rounds :
         monitor.rounds[i].sleep = IF monitor.rounds[i].error THEN 60 ELSE 30

\* C39: an id is put into known_drive_files before its download is tried,
\* and a failed download is final for the watcher: the id stays known, its
\* download is tried exactly once, and it is never reported.
C39_FailedDownloadFinal ==
  monitor.pc # "none" =>
    /\ Range(monitor.tried) \subseteq monitor.known_drive_files
    /\ \A id \in monitor.failed :
         /\ id \in monitor.known_drive_files
         /\ Count(monitor.tried, id) = 1
         /\ \A i \in DOMAIN monitor.reported : monitor.reported[i].id # id

\* the download of a new file failed in the first round; the second round
\* listed the file again without error and left it alone
C39_Witness ==
  /\ monitor.pc # "none"
  /\ monitor.failed # {}
  /\ Len(monitor.tried) = 1
  /\ monitor.reported = <<>>
  /\ Len(monitor.rounds) = 2
  /\ \A i \in 1..2 :
       /\ ~monitor.rounds[i].error
       /\ monitor.failed \subseteq monitor.rounds[i].listed

\* C40: the handler of creation events reports a path at most once in its
\* lifetime: processed_files holds exactly the paths on_created has reported,
\* and a creation event for a path in it is dropped.
C40_CreatedReportedOnce ==
  monitor.pc # "none" =>
    /\ \A a, b \in Reports("created") :
         monitor.reported[a].path = monitor.reported[b].path => a = b
    /\ monitor.processed_files =
         {monitor.reported[i].path : i \in Reports("created")}
    /\ monitor.skipped \subseteq monitor.processed_files

\* a file was created, reported, deleted and created again, and the second
\* event was dropped
C40_Witness ==
  /\ monitor.pc # "none"
  /\ monitor.created = 2
  /\ monitor.skipped # {}
  /\ monitor.skipped \subseteq monitor.folder
  /\ Cardinality(Reports("created")) = 1
  /\ monitor.events = <<>>
  /\ monitor.handling = None

\* C32 as stated: sanitizing is idempotent, sanitize(sanitize(s)) =
\* sanitize(s) for every name s, and a name made only of illegal characters,
\* whitespace, "_" and "." gives the placeholder.
C32_SanitizeIdempotent ==
  /\ naming.pc = "twice" => naming.twice = naming.once
  /\ (naming.pc \in {"once", "twice"} /\ Range(naming.name) \subseteq {"/", " ", "_", "."}) =>
       naming.once = Placeholder(naming.f)

====
